---- MODULE Spec2Model ----
(***************************************************************************)
(* A model of sparsey's system scheduler: SystemParamKind::conflicts_with, *)
(* ScheduleBuilder (add_system, add_barrier, build_with_max_threads),      *)
(* SystemConfig (conditions) and Schedule::run_seq / run_par / run_generic *)
(* with the deferred command buffers of the systems.                       *)
(***************************************************************************)
EXTENDS Integers, Sequences, FiniteSets, TLC

(***************************************************************************)
(* Bounds of the model.                                                    *)
(***************************************************************************)
\* number of add_system / add_barrier calls made on the builder
MaxOps == 3
\* number of times the built schedule is run
MaxRuns == 2
\* number of entities in the world before the first run
NumEntities == 2

\* build() passes usize::MAX as max_threads; any value above every step
\* length behaves the same, this is the largest integer TLC represents.
UsizeMax == 2147483647

(***************************************************************************)
(* SystemParamKind (system/param.rs).                                      *)
(***************************************************************************)
TypeIds == {1, 2}

Entities == [tag |-> "Entities", ty |-> 0]
State(t) == [tag |-> "State", ty |-> t]
Comp(t) == [tag |-> "Comp", ty |-> t]
CompMut(t) == [tag |-> "CompMut", ty |-> t]
Res(t) == [tag |-> "Res", ty |-> t]
ResMut(t) == [tag |-> "ResMut", ty |-> t]

SystemParamKind ==
    {Entities} \cup {[tag |-> g, ty |-> t] :
                        g \in {"State", "Comp", "CompMut", "Res", "ResMut"}, t \in TypeIds}

\* conflicts_with with the (CompMut, Comp) and (ResMut, Res) arms left out
conflicts_with_onesided(self, other) ==
    CASE self.tag = "Comp" /\ other.tag = "CompMut" -> self.ty = other.ty
      [] self.tag = "CompMut" /\ other.tag = "CompMut" -> self.ty = other.ty
      [] self.tag = "Res" /\ other.tag = "ResMut" -> self.ty = other.ty
      [] self.tag = "ResMut" /\ other.tag = "ResMut" -> self.ty = other.ty
      [] OTHER -> FALSE

\* conflicts_with with the (CompMut, CompMut) and (ResMut, ResMut) arms left out
conflicts_with_no_write_write(self, other) ==
    CASE self.tag = "Comp" /\ other.tag = "CompMut" -> self.ty = other.ty
      [] self.tag = "CompMut" /\ other.tag = "Comp" -> self.ty = other.ty
      [] self.tag = "Res" /\ other.tag = "ResMut" -> self.ty = other.ty
      [] self.tag = "ResMut" /\ other.tag = "Res" -> self.ty = other.ty
      [] OTHER -> FALSE

\* conflicts_with whose arms do not compare the type data
conflicts_with_any_type(self, other) ==
    CASE self.tag = "Comp" /\ other.tag = "CompMut" -> TRUE
      [] self.tag = "CompMut" /\ other.tag = "Comp" -> TRUE
      [] self.tag = "CompMut" /\ other.tag = "CompMut" -> TRUE
      [] self.tag = "Res" /\ other.tag = "ResMut" -> TRUE
      [] self.tag = "ResMut" /\ other.tag = "Res" -> TRUE
      [] self.tag = "ResMut" /\ other.tag = "ResMut" -> TRUE
      [] OTHER -> FALSE

\* conflicts_with that does not tell component kinds from resource kinds
conflicts_with_any_family(self, other) ==
    /\ {self.tag, other.tag} \subseteq {"Comp", "CompMut", "Res", "ResMut"}
    /\ self.ty = other.ty
    /\ self.tag \in {"CompMut", "ResMut"} \/ other.tag \in {"CompMut", "ResMut"}

\* conflicts_with where local state conflicts with an exclusive kind of its type
conflicts_with_state(self, other) ==
    CASE self.tag = "Comp" /\ other.tag = "CompMut" -> self.ty = other.ty
      [] self.tag = "CompMut" /\ other.tag = "Comp" -> self.ty = other.ty
      [] self.tag = "CompMut" /\ other.tag = "CompMut" -> self.ty = other.ty
      [] self.tag = "Res" /\ other.tag = "ResMut" -> self.ty = other.ty
      [] self.tag = "ResMut" /\ other.tag = "Res" -> self.ty = other.ty
      [] self.tag = "ResMut" /\ other.tag = "ResMut" -> self.ty = other.ty
      [] self.tag = "State" /\ other.tag \in {"CompMut", "ResMut"} -> self.ty = other.ty
      [] self.tag \in {"CompMut", "ResMut"} /\ other.tag = "State" -> self.ty = other.ty
      [] OTHER -> FALSE

conflicts_with(self, other) ==
    CASE self.tag = "Comp" /\ other.tag = "CompMut" -> self.ty = other.ty
      [] self.tag = "CompMut" /\ other.tag = "Comp" -> self.ty = other.ty
      [] self.tag = "CompMut" /\ other.tag = "CompMut" -> self.ty = other.ty
      [] self.tag = "Res" /\ other.tag = "ResMut" -> self.ty = other.ty
      [] self.tag = "ResMut" /\ other.tag = "Res" -> self.ty = other.ty
      [] self.tag = "ResMut" /\ other.tag = "ResMut" -> self.ty = other.ty
      [] OTHER -> FALSE

(***************************************************************************)
(* The systems the builder is given.  A system function is described by    *)
(* what the scheduler and the run can see of it:                           *)
(*   params     the kinds of its parameters (FunctionSystem.param_kinds)   *)
(*   send       SystemParam::SEND of its parameter set                     *)
(*   exclusive  it takes &mut World (ExclusiveSystem)                      *)
(*   buffer     "Deferred": it has a Deferred<CommandQueue> parameter,     *)
(*              "Commands": it has a Commands parameter, "none": neither   *)
(*   conds      the parameter kinds of each condition attached by run_if   *)
(* Its body writes every resource it borrows exclusively, and destroys an  *)
(* entity: by a command pushed to its queue when it has one, directly on   *)
(* the world when it is exclusive.  A condition returns the value of the   *)
(* resource it reads (examples/conditional.rs).                            *)
(***************************************************************************)
SystemFns ==
    [ toggle_flag |->
        [params |-> <<ResMut(1)>>, send |-> TRUE, exclusive |-> FALSE,
         buffer |-> "none", conds |-> <<>>],
      deferred_reader |->
        [params |-> <<Res(1), State(2)>>, send |-> TRUE, exclusive |-> FALSE,
         buffer |-> "Deferred", conds |-> <<>>],
      gated_commands |->
        [params |-> <<Entities>>, send |-> TRUE, exclusive |-> FALSE,
         buffer |-> "Commands", conds |-> << <<Res(1)>> >>],
      local_destroy |->
        [params |-> <<State(2)>>, send |-> FALSE, exclusive |-> FALSE,
         buffer |-> "Deferred", conds |-> <<>>],
      exclusive_destroy |->
        [params |-> <<>>, send |-> TRUE, exclusive |-> TRUE,
         buffer |-> "none", conds |-> <<>>],
      read_other |->
        [params |-> <<Res(2)>>, send |-> TRUE, exclusive |-> FALSE,
         buffer |-> "none", conds |-> <<>>] ]

\* the systems the schedules that are run are made of
SystemNames ==
    {"toggle_flag", "deferred_reader", "gated_commands", "local_destroy",
     "exclusive_destroy"}
\* the systems the builder alone is given
BuildNames ==
    {"toggle_flag", "deferred_reader", "read_other", "local_destroy",
     "exclusive_destroy"}

\* the system functions whose body may panic, after it pushed its commands
PanickingFns == {"deferred_reader"}

\* System::is_exclusive and System::is_thread_local
is_exclusive(name) == SystemFns[name].exclusive
is_thread_local(name) == ~SystemFns[name].send

(***************************************************************************)
(* Labels (schedule/label.rs) and the default label order.                 *)
(***************************************************************************)
DefaultOrder == <<"First", "PreUpdate", "Update", "PostUpdate", "Last">>
\* the labels the add_system / add_barrier calls of the model use
UsedLabels == {"PreUpdate", "PostUpdate"}
\* the max_threads values the model builds with
MaxThreadsChoices == {2, UsizeMax}

VARIABLES
    phase,      \* "build" | "built" | "ready" | "run" | "done" | "panicked"
    sets,       \* ScheduleBuilder.sets: label -> sequence of SimpleScheduleStep
    order,      \* ScheduleBuilder.order
    systems,    \* the SystemConfigs owned by the schedule, indexed by system id
    steps,      \* Schedule.steps: sequence of [kind, members]
    world,      \* World: [entities, res]
    queue,      \* system id -> its CommandQueue (pending commands)
    mode,       \* "seq" (run, run_seq) or "par" (run_par)
    stepIdx,    \* position of run_generic in steps
    localIdx,   \* position inside a LocalSystems / ExclusiveSystems step
    status,     \* system id -> "idle" | "cond" | "body" | "done" | "panicked"
    evals,      \* system id -> results of the conditions evaluated this tick
    ran,        \* system id -> the body executed this tick
    ret,        \* system id -> value returned by run / run_unsafe this tick
    runs,       \* number of completed runs
    hist,       \* observations of the current run (see below)
    probe,      \* inputs and outputs of the pure functions under test
    cq,         \* stand-alone CommandQueues and what was done with them (see below)
    lbl,        \* the last label operation of the builder (see below)
    sys,        \* systems used on their own, and the last call made on one (see below)
    cond        \* a SystemConfig's conditions and the last should_run call (see below)

vars == <<phase, sets, order, systems, steps, world, queue, mode, stepIdx, localIdx,
          status, evals, ran, ret, runs, hist, probe, cq, lbl, sys, cond>>

Range(f) == {f[i] : i \in DOMAIN f}
Min(S) == CHOOSE x \in S : \A y \in S : x <= y
Max(S) == CHOOSE x \in S : \A y \in S : x >= y

(***************************************************************************)
(* ScheduleBuilder (schedule/mod.rs).                                      *)
(***************************************************************************)
BarrierItem == [kind |-> "Barrier", fn |-> "-"]
BarrierStep == [kind |-> "Barrier", members |-> <<>>]

\* add_system that looks at is_thread_local only
SimpleStepOf_thread_local_only(name) ==
    [kind |-> IF is_thread_local(name) THEN "LocalSystem" ELSE "System", fn |-> name]

\* the SimpleScheduleStep add_system wraps the system in
SimpleStepOf(name) ==
    [kind |-> IF is_exclusive(name) THEN "ExclusiveSystem"
              ELSE IF is_thread_local(name) THEN "LocalSystem"
              ELSE "System",
     fn |-> name]

\* total number of add_system / add_barrier calls so far
OpsDone == LET RECURSIVE Sum(_)
               Sum(D) == IF D = {} THEN 0
                         ELSE LET l == CHOOSE l \in D : TRUE
                              IN Len(sets[l]) + Sum(D \ {l})
           IN Sum(DOMAIN sets)

\* ScheduleBuilder::entry: the set of the label, created (and the label
\* appended to the order when it is not in it) on first use
entry_sets(label) == IF label \in DOMAIN sets THEN sets ELSE sets @@ (label :> <<>>)
entry_order(label) ==
    IF label \in DOMAIN sets \/ label \in Range(order) THEN order ELSE Append(order, label)

add_system(label, name) ==
    /\ phase = "build"
    /\ sets' = [entry_sets(label) EXCEPT ![label] = Append(@, SimpleStepOf(name))]
    /\ order' = entry_order(label)
    /\ UNCHANGED <<phase, systems, steps, world, queue, mode, stepIdx, localIdx,
                   status, evals, ran, ret, runs, hist, probe, cq, lbl, sys, cond>>

add_barrier(label) ==
    /\ phase = "build"
    /\ sets' = [entry_sets(label) EXCEPT ![label] = Append(@, BarrierItem)]
    /\ order' = entry_order(label)
    /\ UNCHANGED <<phase, systems, steps, world, queue, mode, stepIdx, localIdx,
                   status, evals, ran, ret, runs, hist, probe, cq, lbl, sys, cond>>

\* the calls made on the builder of a schedule that is then run
AddSystem(label, name) == OpsDone < MaxOps /\ add_system(label, name)
AddBarrier(label) == OpsDone < MaxOps /\ add_barrier(label)

\* System::param_kinds of the system a SystemConfig derefs to: the kinds of
\* the wrapped system, not those of the attached conditions
param_kinds_empty(cfgs, sid) == <<>>
param_kinds(cfgs, sid) == SystemFns[cfgs[sid].fn].params

LastIsSystems(st) == Len(st) > 0 /\ st[Len(st)].kind = "Systems"

\* step_to_non_conflicting_systems looking only at the last member of the step
step_to_non_conflicting_systems_last(cfgs, step, sid) ==
    /\ step.kind = "Systems"
    /\ ~ \E p1 \in Range(param_kinds(cfgs, step.members[Len(step.members)])),
            p2 \in Range(param_kinds(cfgs, sid)) : conflicts_with(p1, p2)

\* step_to_non_conflicting_systems that does not look at the kind of the step
step_to_non_conflicting_systems_any_step(cfgs, step, sid) ==
    ~ \E m \in Range(step.members) :
        \E p1 \in Range(param_kinds(cfgs, m)), p2 \in Range(param_kinds(cfgs, sid)) :
            conflicts_with(p1, p2)

\* step_to_non_conflicting_systems: TRUE for Some(systems), FALSE for None
step_to_non_conflicting_systems(cfgs, step, sid) ==
    /\ step.kind = "Systems"
    /\ ~ \E m \in Range(step.members) :
            \E p1 \in Range(param_kinds(cfgs, m)), p2 \in Range(param_kinds(cfgs, sid)) :
                conflicts_with(p1, p2)

\* the System arm with the batches that conflict filtered out as the full
\* ones are, the walk going on past them
PlaceSystemPastConflicts(cfgs, st, sid, max_threads) ==
    LET reached == {j \in 1..Len(st) : \A k \in j..Len(st) : st[k].kind = "Systems"}
        open == {j \in reached : /\ step_to_non_conflicting_systems(cfgs, st[j], sid)
                                 /\ Len(st[j].members) < max_threads}
    IN  IF open = {} THEN Append(st, [kind |-> "Systems", members |-> <<sid>>])
        ELSE [st EXCEPT ![Min(open)].members = Append(@, sid)]

\* the System arm with the walk ending at the first full step as well
PlaceSystemStopAtFull(cfgs, st, sid, max_threads) ==
    LET reached == {j \in 1..Len(st) :
                      \A k \in j..Len(st) :
                          /\ step_to_non_conflicting_systems(cfgs, st[k], sid)
                          /\ Len(st[k].members) < max_threads}
    IN  IF reached = {} THEN Append(st, [kind |-> "Systems", members |-> <<sid>>])
        ELSE [st EXCEPT ![Min(reached)].members = Append(@, sid)]

\* SimpleScheduleStep::System arm: walk the steps backward while they are
\* non-conflicting parallel steps (map_while), keep those that are not full
\* (filter), take the last one reached, i.e. the earliest step (last)
PlaceSystem(cfgs, st, sid, max_threads) ==
    LET reached == {j \in 1..Len(st) :
                      \A k \in j..Len(st) : step_to_non_conflicting_systems(cfgs, st[k], sid)}
        open == {j \in reached : Len(st[j].members) < max_threads}
    IN  IF open = {} THEN Append(st, [kind |-> "Systems", members |-> <<sid>>])
        ELSE [st EXCEPT ![Min(open)].members = Append(@, sid)]

\* SimpleScheduleStep::LocalSystem / ExclusiveSystem arms
PlaceSequential(st, sid, kind) ==
    IF Len(st) > 0 /\ st[Len(st)].kind = kind
    THEN [st EXCEPT ![Len(st)].members = Append(@, sid)]
    ELSE Append(st, [kind |-> kind, members |-> <<sid>>])

\* the Barrier arm pushing a Barrier whatever the last step is
PlaceBarrierAlways(st) == Append(st, BarrierStep)
\* SimpleScheduleStep::Barrier arm
PlaceBarrier(st) == IF LastIsSystems(st) THEN Append(st, BarrierStep) ELSE st

\* the barrier pushed when the loop reaches a label that has a set
LabelBarrierNever(st) == st
LabelBarrier(st) == IF LastIsSystems(st) THEN Append(st, BarrierStep) ELSE st

\* number of add_barrier calls among the first n items of a set
RECURSIVE BarriersIn(_, _)
BarriersIn(set, n) ==
    IF n = 0 THEN 0
    ELSE BarriersIn(set, n - 1) + (IF set[n].kind = "Barrier" THEN 1 ELSE 0)

\* the loop over set.drain(..); acc = [systems, steps, placed], where placed
\* lists, for every system the System arm placed, the steps before and after
\* its placement.  A system keeps, beside
\* its function, where it was added: its label, its position in the label's
\* set and the number of barriers requested under the label before it.
RECURSIVE DrainSet(_, _, _, _, _)
DrainSet(acc, label, set, pos, max_threads) ==
    IF pos > Len(set) THEN acc
    ELSE LET item == set[pos]
             cfgs == Append(acc.systems,
                            [fn |-> item.fn, label |-> label, pos |-> pos,
                             epoch |-> BarriersIn(set, pos)])
             sid == Len(cfgs)
             next ==
                CASE item.kind = "System" ->
                        LET st == PlaceSystem(cfgs, acc.steps, sid, max_threads)
                        IN  [systems |-> cfgs, steps |-> st,
                             placed |-> Append(acc.placed,
                                               [sid |-> sid, before |-> acc.steps,
                                                after |-> st])]
                  [] item.kind = "LocalSystem" ->
                        [acc EXCEPT !.systems = cfgs,
                                    !.steps = PlaceSequential(@, sid, "LocalSystems")]
                  [] item.kind = "ExclusiveSystem" ->
                        [acc EXCEPT !.systems = cfgs,
                                    !.steps = PlaceSequential(@, sid, "ExclusiveSystems")]
                  [] OTHER -> [acc EXCEPT !.steps = PlaceBarrier(@)]
         IN  DrainSet(next, label, set, pos + 1, max_threads)

\* the loop over self.order
RECURSIVE BuildLabels(_, _, _, _, _)
BuildLabels(acc, ord, i, ss, max_threads) ==
    IF i > Len(ord) THEN acc
    ELSE IF ord[i] \in DOMAIN ss
         THEN BuildLabels(
                DrainSet([acc EXCEPT !.steps = LabelBarrier(@)], ord[i], ss[ord[i]], 1,
                         max_threads),
                ord, i + 1, ss, max_threads)
         ELSE BuildLabels(acc, ord, i + 1, ss, max_threads)

build_with_max_threads(ord, ss, max_threads) ==
    BuildLabels([systems |-> <<>>, steps |-> <<>>, placed |-> <<>>], ord, 1, ss,
                max_threads)

(***************************************************************************)
(* The state after construction: Schedule::builder() with the five default *)
(* labels, and a world holding NumEntities entities and the resource the   *)
(* conditions read (set, as in examples/conditional.rs).                   *)
(***************************************************************************)
NoProbe == [a |-> Entities, b |-> Entities, done |-> FALSE, out |-> FALSE, rev |-> FALSE]

\* no add_label / add_label_before / add_label_after call made yet
NoLabelOp ==
    [op |-> "none", label |-> "", ref |-> "", before |-> <<>>, panicked |-> FALSE, n |-> 0]

\* Systems used on their own, outside a schedule.  Three system functions,
\* each counting its runs in a Local<usize> as stateful_system of
\* examples/state.rs does:
\*   count_deferred   also takes a Deferred<CommandQueue>
\*   count_commands   also takes Commands
\*   count_exclusive  takes &mut World (an exclusive system)
\* A body pushes a destroy command for an entity to its queue when it has
\* one; the exclusive system destroys an entity directly.
SysFns ==
    [ count_deferred |-> [exclusive |-> FALSE, buffer |-> "Deferred"],
      count_commands |-> [exclusive |-> FALSE, buffer |-> "Commands"],
      count_exclusive |-> [exclusive |-> TRUE, buffer |-> "none"] ]
SysProto == <<"count_deferred", "count_commands", "count_exclusive">>
SysIds == DOMAIN SysProto

\* param_state: None
NoneState == [some |-> FALSE, local |-> 0, queue |-> <<>>]
\* IntoSystem::into_system: the system is created without its state
into_system(fn) == [fn |-> fn, param_state |-> NoneState]

NoSysOp ==
    [op |-> "none", id |-> 0, fn |-> "", wasInit |-> FALSE, outcome |-> "ok",
     body |-> FALSE, seen |-> 0, leftBefore |-> 0, sinceBefore |-> {},
     pushed |-> <<>>, applied |-> <<>>]
\* the three systems after into_system, the entities of the world, and for
\* each system whether initialize was called on it, the value its Local was
\* left with and what happened since
NoSys ==
    [inst |-> [i \in SysIds |-> into_system(SysProto[i])],
     entities |-> 1..NumEntities,
     called |-> [i \in SysIds |-> FALSE],
     left |-> [i \in SysIds |-> 0],
     since |-> [i \in SysIds |-> {}],
     last |-> NoSysOp,
     n |-> 0,
     halted |-> FALSE]

\* A SystemConfig before any run_if call, and the registry's Flag resource
\* (its Default is false): the attached conditions, the Local each keeps in
\* its param_state once initialized, and the last call
NoCondOp ==
    [op |-> "none", locals |-> <<>>, flag |-> FALSE, result |-> FALSE, panicked |-> FALSE]
NoConds ==
    [conditions |-> <<>>, locals |-> <<>>, initialized |-> FALSE, flag |-> FALSE,
     n |-> 0, halted |-> FALSE, last |-> NoCondOp]

\* two empty CommandQueues (CommandQueue::default), nothing done with them yet
QueueIds == {1, 2}
NoOp == [op |-> "none", q |-> 0, src |-> 0, before |-> <<>>, world |-> <<>>, logLen |-> 0]
NoQueues ==
    [bytes |-> [q \in QueueIds |-> <<>>],      \* CommandQueue.bytes
     live |-> QueueIds,                        \* the queues not dropped yet
     pending |-> [q \in QueueIds |-> <<>>],    \* the commands each queue was given
     log |-> <<>>,                             \* commands consumed: [id, fate, via]
     issued |-> 0,                             \* number of commands pushed
     last |-> NoOp]                            \* the last operation and the state before it

EmptyHist ==
    [pushed |-> <<>>, applied |-> <<>>, unmaintained |-> {}, dirtyAtStart |-> <<>>,
     pendingAtStart |-> <<>>, stepStart |-> {}, bodyCount |-> <<>>, trueTicks |-> <<>>,
     maintains |-> 0]

Init ==
    /\ phase = "build"
    /\ sets = <<>>
    /\ order = DefaultOrder
    /\ systems = <<>>
    /\ steps = <<>>
    /\ world = [entities |-> 1..NumEntities, res |-> (1 :> TRUE)]
    /\ queue = <<>>
    /\ mode = "seq"
    /\ stepIdx = 1
    /\ localIdx = 1
    /\ status = <<>>
    /\ evals = <<>>
    /\ ran = <<>>
    /\ ret = <<>>
    /\ runs = 0
    /\ hist = EmptyHist
    /\ probe = NoProbe
    /\ cq = NoQueues
    /\ lbl = NoLabelOp
    /\ sys = NoSys
    /\ cond = NoConds

\* the orders in which a hash map holding the keys S can yield them
KeyOrders(S) == {f \in [1..Cardinality(S) -> S] : Range(f) = S}

\* the labels the build loop visits, given the builder's order and the order
\* in which the sets map iterates: the loop runs over the map's keys
LabelsVisitedByMap(ord, iter) == iter
\* "for label in &self.order": the loop runs over the order vector
LabelsVisited(ord, iter) == ord

\* set.drain(..) leaving the systems in the set
drain_kept(ss) == ss
\* set.drain(..) of every set of the builder: the sets stay, emptied
drain(ss) == [l \in DOMAIN ss |-> <<>>]

\* build / build_with_max_threads: the sets are drained into the schedule;
\* from and to tell the first build of a builder from a second one
BuildCore(max_threads, from, to) ==
    /\ phase = from
    /\ \E iter \in KeyOrders(DOMAIN sets) :
       LET built == build_with_max_threads(LabelsVisited(order, iter), sets, max_threads)
           ids == 1..Len(built.systems)
       IN  /\ systems' = built.systems
           /\ steps' = built.steps
           /\ queue' = [s \in ids |-> <<>>]
           /\ status' = [s \in ids |-> "idle"]
           /\ evals' = [s \in ids |-> <<>>]
           /\ ran' = [s \in ids |-> FALSE]
           /\ ret' = [s \in ids |-> "none"]
           /\ hist' = [EmptyHist EXCEPT !.pushed = [s \in ids |-> <<>>],
                                        !.dirtyAtStart = [s \in ids |-> {}],
                                        !.pendingAtStart = [s \in ids |-> {}],
                                        !.bodyCount = [s \in ids |-> 0],
                                        !.trueTicks = [s \in ids |-> 0]]
    /\ sets' = drain(sets)
    /\ phase' = to
    /\ UNCHANGED <<order, world, mode, stepIdx, localIdx, runs, cq, lbl, sys, cond>>

Build(max_threads) == BuildCore(max_threads, "build", "built") /\ UNCHANGED probe

\* what is kept of a build for the properties of the built schedule: the
\* builder's state and max_threads, the placements, and the number of steps
\* of the schedule the builder had built before
Recorded(max_threads) ==
    [order |-> order, sets |-> sets, max_threads |-> max_threads,
     placed |-> build_with_max_threads(order, sets, max_threads).placed,
     prev |-> Len(steps)]

BuildRecorded(max_threads) ==
    /\ BuildCore(max_threads, "build", "built")
    /\ probe' = Recorded(max_threads)

\* a second build on the same builder, no call made on it in between
BuildAgain(max_threads) ==
    /\ BuildCore(max_threads, "built", "rebuilt")
    /\ probe' = Recorded(max_threads)

\* Schedule::initialize: every system and condition gets its param_state
Initialize ==
    /\ phase = "built"
    /\ phase' = "ready"
    /\ UNCHANGED <<sets, order, systems, steps, world, queue, mode, stepIdx, localIdx,
                   status, evals, ran, ret, runs, hist, probe, cq, lbl, sys, cond>>

(***************************************************************************)
(* Running a schedule (Schedule::run_generic and its two runners).         *)
(***************************************************************************)
Ids == DOMAIN systems
Fn(sid) == SystemFns[systems[sid].fn]
Conds(sid) == Fn(sid).conds

\* the step a system is a member of, and its position in it
StepOf(sid) == CHOOSE j \in DOMAIN steps : sid \in Range(steps[j].members)
IndexIn(sid) == CHOOSE i \in DOMAIN steps[StepOf(sid)].members :
                    steps[StepOf(sid)].members[i] = sid
\* a runs before s in every run: an earlier step, or earlier in a sequential step
Precedes(a, s) ==
    \/ StepOf(a) < StepOf(s)
    \/ /\ StepOf(a) = StepOf(s)
       /\ steps[StepOf(s)].kind # "Systems"
       /\ IndexIn(a) < IndexIn(s)

\* World::maintain; the run records which systems ran since the last call
\* and how many calls it made
Maintain(h) == [h EXCEPT !.unmaintained = {}, !.maintains = @ + 1]

\* run, run_seq or run_par is called on an initialized schedule; the program
\* drives a schedule with the same runner on every tick
StartRun(m) ==
    /\ phase \in {"ready", "done"}
    /\ runs < MaxRuns
    /\ runs > 0 => m = mode
    /\ phase' = "run"
    /\ mode' = m
    /\ stepIdx' = 1
    /\ localIdx' = 1
    /\ status' = [s \in Ids |-> "idle"]
    /\ evals' = [s \in Ids |-> <<>>]
    /\ ran' = [s \in Ids |-> FALSE]
    /\ ret' = [s \in Ids |-> "none"]
    /\ hist' = [hist EXCEPT !.pushed = [s \in Ids |-> <<>>],
                            !.applied = <<>>,
                            !.dirtyAtStart = [s \in Ids |-> {}],
                            !.pendingAtStart = [s \in Ids |-> {}],
                            !.stepStart = world.entities,
                            !.maintains = 0]
    /\ UNCHANGED <<sets, order, systems, steps, world, queue, runs, probe, cq, lbl, sys, cond>>

InStep(kind) == phase = "run" /\ stepIdx <= Len(steps) /\ steps[stepIdx].kind = kind
Members == steps[stepIdx].members

\* what the run records when run / run_unsafe of system s is entered
Enter(h, s, q) ==
    [h EXCEPT !.unmaintained = @ \cup {s},
              !.dirtyAtStart[s] = {a \in h.unmaintained : Precedes(a, s)},
              !.pendingAtStart[s] = {a \in Ids : Precedes(a, s) /\ q[a] # <<>>}]

\* what the run records when run / run_unsafe of system s returns
Leave(h, s, evs, didRun, cmds) ==
    [h EXCEPT !.pushed[s] = @ \o cmds,
              !.bodyCount[s] = @ + (IF didRun THEN 1 ELSE 0),
              !.trueTicks[s] = @ + (IF Len(evs) = Len(Conds(s)) /\ \A i \in DOMAIN evs : evs[i]
                                    THEN 1 ELSE 0)]

\* a condition returns the resource it reads (stateful_condition)
CondValue(kinds, w) == \A k \in Range(kinds) : k.tag = "Res" => w.res[k.ty]

\* should_run is Iterator::all over the conditions: it goes on to the next
\* condition (and at last to the body) only after a condition that is true
ConditionPassesAlways(v) == TRUE
ConditionPasses(v) == v

\* the body of a system: writes the resources it borrows exclusively; an
\* exclusive system destroys the newest entity directly
BodyWorld(s, w) ==
    [entities |-> IF Fn(s).exclusive /\ w.entities # {}
                  THEN w.entities \ {Max(w.entities)} ELSE w.entities,
     res |-> [t \in DOMAIN w.res |->
                IF ResMut(t) \in Range(Fn(s).params) THEN ~w.res[t] ELSE w.res[t]]]

\* the commands the body pushes to its queue (Commands::destroy / CommandQueue::push)
BodyCommands(s, w) ==
    IF Fn(s).buffer # "none" /\ w.entities # {}
    THEN <<[op |-> "destroy", entity |-> Min(w.entities), by |-> s]>>
    ELSE <<>>

\* the kinds system s has borrowed from the world at this moment
Held(s) ==
    CASE status[s] = "cond" -> Range(Conds(s)[Len(evals[s]) + 1])
      [] status[s] = "body" -> Range(Fn(s).params)
      [] OTHER -> {}

\* the runner of run_seq calls run_unsafe on the members one after another,
\* that of run_par on all of them in parallel
MayStep(s) ==
    /\ InStep("Systems")
    /\ s \in Range(Members)
    /\ mode = "seq" => \A a \in Range(Members) : IndexIn(a) < IndexIn(s) => status[a] = "done"

\* SystemConfig::run_unsafe is entered and should_run borrows the parameters
\* of the first condition
BeginCondition(s) ==
    /\ MayStep(s)
    /\ status[s] = "idle"
    /\ Len(Conds(s)) > 0
    /\ status' = [status EXCEPT ![s] = "cond"]
    /\ hist' = Enter(hist, s, queue)
    /\ UNCHANGED <<phase, sets, order, systems, steps, world, queue, mode, stepIdx,
                   localIdx, evals, ran, ret, runs, probe, cq, lbl, sys, cond>>

\* the condition returns: on false run_unsafe returns false, on true the next
\* condition or, after the last one, the body borrows its parameters
EndCondition(s) ==
    /\ MayStep(s)
    /\ status[s] = "cond"
    /\ LET v == CondValue(Conds(s)[Len(evals[s]) + 1], world)
           evs == Append(evals[s], v)
       IN  /\ evals' = [evals EXCEPT ![s] = evs]
           /\ IF ConditionPasses(v)
              THEN /\ status' = [status EXCEPT ![s] = IF Len(evs) < Len(Conds(s))
                                                      THEN "cond" ELSE "body"]
                   /\ UNCHANGED <<ret, hist>>
              ELSE /\ status' = [status EXCEPT ![s] = "done"]
                   /\ ret' = [ret EXCEPT ![s] = "false"]
                   /\ hist' = Leave(hist, s, evs, FALSE, <<>>)
    /\ UNCHANGED <<phase, sets, order, systems, steps, world, queue, mode, stepIdx,
                   localIdx, ran, runs, probe, cq, lbl, sys, cond>>

\* SystemConfig::run_unsafe of a system without conditions is entered:
\* FunctionSystem::run_unsafe borrows the parameters
BeginBody(s) ==
    /\ MayStep(s)
    /\ status[s] = "idle"
    /\ Len(Conds(s)) = 0
    /\ status' = [status EXCEPT ![s] = "body"]
    /\ hist' = Enter(hist, s, queue)
    /\ UNCHANGED <<phase, sets, order, systems, steps, world, queue, mode, stepIdx,
                   localIdx, evals, ran, ret, runs, probe, cq, lbl, sys, cond>>

\* the body has run and run_unsafe returns true
EndBody(s) ==
    /\ MayStep(s)
    /\ status[s] = "body"
    /\ world' = BodyWorld(s, world)
    /\ queue' = [queue EXCEPT ![s] = @ \o BodyCommands(s, world)]
    /\ status' = [status EXCEPT ![s] = "done"]
    /\ ran' = [ran EXCEPT ![s] = TRUE]
    /\ ret' = [ret EXCEPT ![s] = "true"]
    /\ hist' = Leave(hist, s, evals[s], TRUE, BodyCommands(s, world))
    /\ UNCHANGED <<phase, sets, order, systems, steps, mode, stepIdx, localIdx, evals,
                   runs, probe, cq, lbl, sys, cond>>

\* the body panics after it pushed its commands: run_unsafe does not return
PanicBody(s) ==
    /\ MayStep(s)
    /\ status[s] = "body"
    /\ systems[s].fn \in PanickingFns
    /\ queue' = [queue EXCEPT ![s] = @ \o BodyCommands(s, world)]
    /\ status' = [status EXCEPT ![s] = "panicked"]
    /\ hist' = [hist EXCEPT !.pushed[s] = @ \o BodyCommands(s, world)]
    /\ UNCHANGED <<phase, sets, order, systems, steps, world, mode, stepIdx, localIdx,
                   evals, ran, ret, runs, probe, cq, lbl, sys, cond>>

\* CommandQueue::apply: every queued command is applied, first pushed first;
\* the destroy command removes its entity from the world
RECURSIVE ApplyQueue(_, _)
ApplyQueue(w, q) ==
    IF q = <<>> THEN w
    ELSE ApplyQueue([w EXCEPT !.entities = @ \ {q[1].entity}], Tail(q))

\* FunctionSystem::apply_deferred calls SystemParam::apply of every parameter:
\* Deferred<T> applies its buffer; Commands does not define apply, so the
\* default of the trait, which does nothing, stands for it
apply_deferred(acc, s) ==
    IF Fn(s).buffer = "Deferred"
    THEN [world |-> ApplyQueue(acc.world, acc.queue[s]),
          queue |-> [acc.queue EXCEPT ![s] = <<>>],
          applied |-> acc.applied \o acc.queue[s]]
    ELSE acc

\* for system in systems { system.apply_deferred(world) }
RECURSIVE ApplyMembers(_, _, _)
ApplyMembers(acc, members, i) ==
    IF i > Len(members) THEN acc
    ELSE ApplyMembers(apply_deferred(acc, members[i]), members, i + 1)

\* a runner that returns to run_generic although a member panicked
RunnerReturnedOrPanicked == \A s \in Range(Members) : status[s] \in {"done", "panicked"}

\* system_runner returns when run_unsafe of every member has returned
RunnerReturnedEarly == \E s \in Range(Members) : status[s] = "done"
RunnerReturned == \A s \in Range(Members) : status[s] = "done"

\* ScheduleStep::Systems arm, after the runner: the deferred buffers
ApplyDeferredStep ==
    /\ InStep("Systems")
    /\ RunnerReturned
    /\ LET acc == ApplyMembers([world |-> world, queue |-> queue, applied |-> hist.applied],
                               Members, 1)
       IN  /\ world' = acc.world
           /\ queue' = acc.queue
           /\ hist' = [hist EXCEPT !.applied = acc.applied, !.stepStart = acc.world.entities]
    /\ stepIdx' = stepIdx + 1
    /\ UNCHANGED <<phase, sets, order, systems, steps, mode, localIdx, status, evals, ran,
                   ret, runs, probe, cq, lbl, sys, cond>>

\* the panic of a member leaves the runner once no member is running (the
\* sequential runner at once, the parallel one when the running members have
\* finished) and propagates out of run_generic to the caller of run
Unwind ==
    /\ InStep("Systems")
    /\ \E s \in Range(Members) : status[s] = "panicked"
    /\ \A s \in Range(Members) : status[s] \notin {"cond", "body"}
    /\ phase' = "panicked"
    /\ UNCHANGED <<sets, order, systems, steps, world, queue, mode, stepIdx, localIdx,
                   status, evals, ran, ret, runs, hist, probe, cq, lbl, sys, cond>>

\* should_run with exclusive access: the conditions in order, up to the first
\* that does not pass
RECURSIVE EvalConds(_, _, _)
EvalConds(conds, i, w) ==
    IF i > Len(conds) THEN <<>>
    ELSE LET v == CondValue(conds[i], w)
         IN  IF ConditionPasses(v) THEN <<v>> \o EvalConds(conds, i + 1, w) ELSE <<v>>

\* the maintain call of the LocalSystems and ExclusiveSystems arms
run_local_maintain_skip(h) == h
run_local_maintain(h) == Maintain(h)

\* ScheduleStep::LocalSystems / ExclusiveSystems arms, one system:
\* world.maintain(); system.run(world), which is SystemConfig::run
RunSequentialSystem ==
    /\ InStep("LocalSystems") \/ InStep("ExclusiveSystems")
    /\ LET s == Members[localIdx]
           evs == EvalConds(Conds(s), 1, world)
           go == Len(evs) = Len(Conds(s)) /\ \A i \in DOMAIN evs : ConditionPasses(evs[i])
           cmds == IF go THEN BodyCommands(s, world) ELSE <<>>
           w == IF go THEN BodyWorld(s, world) ELSE world
       IN  /\ world' = w
           /\ queue' = [queue EXCEPT ![s] = @ \o cmds]
           /\ status' = [status EXCEPT ![s] = "done"]
           /\ evals' = [evals EXCEPT ![s] = evs]
           /\ ran' = [ran EXCEPT ![s] = go]
           /\ ret' = [ret EXCEPT ![s] = IF go THEN "true" ELSE "false"]
           /\ hist' = [Leave(Enter(run_local_maintain(hist), s, queue), s, evs, go, cmds)
                         EXCEPT !.stepStart = w.entities]
    /\ IF localIdx < Len(Members)
       THEN localIdx' = localIdx + 1 /\ stepIdx' = stepIdx
       ELSE localIdx' = 1 /\ stepIdx' = stepIdx + 1
    /\ UNCHANGED <<phase, sets, order, systems, steps, mode, runs, probe, cq, lbl, sys, cond>>

\* ScheduleStep::Barrier => world.maintain()
run_barrier_skip(h) == h
run_barrier(h) == Maintain(h)

RunBarrier ==
    /\ InStep("Barrier")
    /\ hist' = run_barrier(hist)
    /\ stepIdx' = stepIdx + 1
    /\ UNCHANGED <<phase, sets, order, systems, steps, world, queue, mode, localIdx,
                   status, evals, ran, ret, runs, probe, cq, lbl, sys, cond>>

\* the maintain call after the last step; the run returns
FinishRun ==
    /\ phase = "run"
    /\ stepIdx > Len(steps)
    /\ hist' = Maintain(hist)
    /\ phase' = "done"
    /\ runs' = runs + 1
    /\ UNCHANGED <<sets, order, systems, steps, world, queue, mode, stepIdx, localIdx,
                   status, evals, ran, ret, probe, cq, lbl, sys, cond>>

Next ==
    \/ \E l \in UsedLabels, n \in SystemNames : AddSystem(l, n)
    \/ \E l \in UsedLabels : AddBarrier(l)
    \/ \E t \in MaxThreadsChoices : Build(t)
    \/ Initialize
    \/ \E m \in {"seq", "par"} : StartRun(m)
    \/ \E s \in Ids : BeginCondition(s)
    \/ \E s \in Ids : EndCondition(s)
    \/ \E s \in Ids : BeginBody(s)
    \/ \E s \in Ids : EndBody(s)
    \/ \E s \in Ids : PanicBody(s)
    \/ ApplyDeferredStep
    \/ Unwind
    \/ RunSequentialSystem
    \/ RunBarrier
    \/ FinishRun

Spec == Init /\ [][Next]_vars

(***************************************************************************)
(* conflicts_with applied to every pair of parameter kinds.                *)
(***************************************************************************)
InitKinds ==
    /\ phase = "build"
    /\ sets = <<>>
    /\ order = DefaultOrder
    /\ systems = <<>>
    /\ steps = <<>>
    /\ world = [entities |-> 1..NumEntities, res |-> (1 :> TRUE)]
    /\ queue = <<>>
    /\ mode = "seq"
    /\ stepIdx = 1
    /\ localIdx = 1
    /\ status = <<>>
    /\ evals = <<>>
    /\ ran = <<>>
    /\ ret = <<>>
    /\ runs = 0
    /\ hist = EmptyHist
    /\ cq = NoQueues
    /\ lbl = NoLabelOp
    /\ sys = NoSys
    /\ cond = NoConds
    /\ probe \in {[a |-> x, b |-> y, done |-> FALSE, out |-> FALSE, rev |-> FALSE] :
                    x \in SystemParamKind, y \in SystemParamKind}

ConflictsWith ==
    /\ ~probe.done
    /\ probe' = [probe EXCEPT !.done = TRUE,
                              !.out = conflicts_with(probe.a, probe.b),
                              !.rev = conflicts_with(probe.b, probe.a)]
    /\ UNCHANGED <<phase, sets, order, systems, steps, world, queue, mode, stepIdx,
                   localIdx, status, evals, ran, ret, runs, hist, cq, lbl, sys, cond>>

NextKinds == ConflictsWith

SpecKinds == InitKinds /\ [][NextKinds]_vars

(***************************************************************************)
(* The builder alone, over more labels and more max_threads values.        *)
(***************************************************************************)
BuildLabelSet == {"First", "Last"}
BuildThreadsChoices == {0, 1, 2, UsizeMax}

NextBuild ==
    \/ \E l \in BuildLabelSet, n \in BuildNames : AddSystem(l, n)
    \/ \E l \in BuildLabelSet : AddBarrier(l)
    \/ \E t \in BuildThreadsChoices : BuildRecorded(t)
    \/ \E t \in BuildThreadsChoices : BuildAgain(t)

SpecBuild == Init /\ [][NextBuild]_vars

(***************************************************************************)
(* The placement of parallel systems alone: one label, systems that all    *)
(* take the System arm of the build loop, and one call more.               *)
(***************************************************************************)
PlaceNames == {"toggle_flag", "deferred_reader", "read_other"}
PlaceThreadsChoices == {1, 2, UsizeMax}
MaxPlaceOps == MaxOps + 1

NextPlace ==
    \/ \E n \in PlaceNames : OpsDone < MaxPlaceOps /\ add_system("Update", n)
    \/ OpsDone < MaxPlaceOps /\ add_barrier("Update")
    \/ \E t \in PlaceThreadsChoices : BuildRecorded(t)

SpecPlace == Init /\ [][NextPlace]_vars

(***************************************************************************)
(* CommandQueue (system/commands.rs).  The queue is a vector of cells: a   *)
(* command is written as a CommandMeta cell followed by size_of::<C>()     *)
(* cells holding the command itself.  The commands are the closures the    *)
(* Commands methods push: destroy captures an entity, insert_resource      *)
(* captures the resource, remove_resource captures nothing.  A meta cell   *)
(* stands for the function pointer monomorphised for the command type; the *)
(* id it carries only names the command in the log.                        *)
(***************************************************************************)
MaxPush == 3

CommandTypes == {"destroy", "insert_resource", "remove_resource"}

size_of(ty) == IF ty = "remove_resource" THEN 0 ELSE 1
size_of_CommandMeta == 1

\* Command::apply of the closures pushed by Commands
Command_apply(ty, arg, w) ==
    CASE ty = "destroy" -> [w EXCEPT !.entities = @ \ {arg}]
      [] ty = "insert_resource" ->
            [w EXCEPT !.res = [t \in DOMAIN w.res \cup {1} |->
                                  IF t = 1 THEN arg = 1 ELSE w.res[t]]]
      [] ty = "remove_resource" ->
            [w EXCEPT !.res = [t \in DOMAIN w.res \ {1} |-> w.res[t]]]

\* Packed { meta, command } as written by push
Packed(cmd) ==
    <<[ty |-> cmd.ty, id |-> cmd.id]>> \o (IF size_of(cmd.ty) = 0 THEN <<>> ELSE <<cmd.arg>>)

\* push with the command written in front of the queue
push_front(cells, cmd) == Packed(cmd) \o cells

\* CommandQueue::push: the packed command is written at the end of bytes
push(cells, cmd) == cells \o Packed(cmd)

\* CommandMeta.consume_command_and_get_size: reads the command at the cursor,
\* applies it to the world if there is one, drops it otherwise
consume_command_and_get_size(meta, cells, cursor, w, some) ==
    LET arg == IF size_of(meta.ty) = 0 THEN 0 ELSE cells[cursor]
    IN  [world |-> IF some THEN Command_apply(meta.ty, arg, w) ELSE w,
         fate |-> IF some THEN "applied" ELSE "dropped",
         size |-> size_of(meta.ty)]

\* bytes left as they are
set_len_keep(cells) == cells

\* self.bytes.set_len(0)
set_len_0(cells) == <<>>

\* apply_or_drop_queud: the walk of the cursor over the cells
RECURSIVE apply_or_drop_queud(_, _, _, _, _, _)
apply_or_drop_queud(cells, cursor, w, lg, some, via) ==
    IF cursor > Len(cells) THEN [world |-> w, log |-> lg]
    ELSE LET meta == cells[cursor]
             cmd == cursor + size_of_CommandMeta
             r == consume_command_and_get_size(meta, cells, cmd, w, some)
         IN  apply_or_drop_queud(cells, cmd + r.size, r.world,
                                 Append(lg, [id |-> meta.id, fate |-> r.fate, via |-> via]),
                                 some, via)

\* SystemBuffer::apply for CommandQueue
CommandQueue_apply(cells, w, lg, via) == apply_or_drop_queud(cells, 1, w, lg, TRUE, via)

\* a drop that hands the world to the commands
CommandQueue_drop_applying(cells, w, lg, via) ==
    apply_or_drop_queud(cells, 1, w, lg, TRUE, via)

\* Drop for CommandQueue
CommandQueue_drop(cells, w, lg, via) == apply_or_drop_queud(cells, 1, w, lg, FALSE, via)

Op(op, q, src, before) ==
    [op |-> op, q |-> q, src |-> src, before |-> before, world |-> world,
     logLen |-> Len(cq.log)]

QueueFrame ==
    UNCHANGED <<phase, sets, order, systems, steps, queue, mode, stepIdx, localIdx,
                status, evals, ran, ret, runs, hist, probe, lbl, sys, cond>>

PushArgs(ty) ==
    CASE ty = "destroy" -> {1, NumEntities}
      [] ty = "insert_resource" -> {0}
      [] ty = "remove_resource" -> {0}

Push(q, ty, arg) ==
    /\ q \in cq.live
    /\ cq.issued < MaxPush
    /\ LET cmd == [id |-> cq.issued + 1, ty |-> ty, arg |-> arg]
       IN  cq' = [cq EXCEPT !.bytes[q] = push(@, cmd),
                            !.pending[q] = Append(@, cmd),
                            !.issued = @ + 1,
                            !.last = Op("push", q, q, cq.pending[q])]
    /\ UNCHANGED world
    /\ QueueFrame

\* CommandQueue::append
AppendQueue(q, other) ==
    /\ q \in cq.live /\ other \in cq.live /\ q # other
    /\ cq' = [cq EXCEPT !.bytes[q] = @ \o cq.bytes[other],
                        !.bytes[other] = <<>>,
                        !.pending[q] = @ \o cq.pending[other],
                        !.pending[other] = <<>>,
                        !.last = Op("append", q, other, cq.pending[q] \o cq.pending[other])]
    /\ UNCHANGED world
    /\ QueueFrame

ApplyQueueTo(q) ==
    /\ q \in cq.live
    /\ LET r == CommandQueue_apply(cq.bytes[q], world, cq.log, q)
       IN  /\ world' = r.world
           /\ cq' = [cq EXCEPT !.bytes[q] = set_len_0(@),
                                !.pending[q] = <<>>,
                                !.log = r.log,
                                !.last = Op("apply", q, q, cq.pending[q])]
    /\ QueueFrame

DropQueue(q) ==
    /\ q \in cq.live
    /\ LET r == CommandQueue_drop(cq.bytes[q], world, cq.log, q)
       IN  /\ world' = r.world
           /\ cq' = [cq EXCEPT !.bytes[q] = set_len_0(@),
                                !.pending[q] = <<>>,
                                !.live = @ \ {q},
                                !.log = r.log,
                                !.last = Op("drop", q, q, cq.pending[q])]
    /\ QueueFrame

NextQueue ==
    \/ \E q \in QueueIds, ty \in CommandTypes : \E arg \in PushArgs(ty) : Push(q, ty, arg)
    \/ \E q, other \in QueueIds : AppendQueue(q, other)
    \/ \E q \in QueueIds : ApplyQueueTo(q)
    \/ \E q \in QueueIds : DropQueue(q)

SpecQueue == Init /\ [][NextQueue]_vars

(***************************************************************************)
(* The label order of the builder (schedule/mod.rs).  Vec positions count  *)
(* from 0 as in the source; None is written -1.                            *)
(***************************************************************************)
MaxLabelOps == 2

LabelArgs == {"First", "Update", "Last", "Custom", "Other"}

\* Iterator::position
label_idx(ord, label) ==
    IF \E i \in DOMAIN ord : ord[i] = label
    THEN (CHOOSE i \in DOMAIN ord : ord[i] = label /\ \A j \in 1..(i - 1) : ord[j] # label) - 1
    ELSE -1

\* label_entry that puts a new label in front
label_entry_front(ord, label) ==
    IF label_idx(ord, label) >= 0
    THEN [order |-> ord, idx |-> label_idx(ord, label)]
    ELSE [order |-> <<label>> \o ord, idx |-> 0]

\* label_entry that pushes the label whether or not it is in the order
label_entry_push(ord, label) == [order |-> Append(ord, label), idx |-> Len(ord)]

\* label_entry: the position of the label, pushed at the end when it is new
label_entry(ord, label) ==
    IF label_idx(ord, label) >= 0
    THEN [order |-> ord, idx |-> label_idx(ord, label)]
    ELSE [order |-> Append(ord, label), idx |-> Len(ord)]

\* Vec::remove(index)
remove(v, index) == SubSeq(v, 1, index) \o SubSeq(v, index + 2, Len(v))

\* Vec::insert(index, element): panics when index > len
insert(v, index, element) ==
    IF index > Len(v) THEN [vec |-> v, panicked |-> TRUE]
    ELSE [vec |-> SubSeq(v, 1, index) \o <<element>> \o SubSeq(v, index + 1, Len(v)),
          panicked |-> FALSE]

\* add_label_before with before_idx left as it is
before_idx_kept(before_idx, idx) == before_idx

\* add_label_before: if before_idx > idx { before_idx -= 1 }
before_idx_adjusted(before_idx, idx) == IF before_idx > idx THEN before_idx - 1 ELSE before_idx

\* add_label_after: if after_idx > idx { after_idx += 1 }
after_idx_adjusted(after_idx, idx) == IF after_idx > idx THEN after_idx + 1 ELSE after_idx

\* order.remove(idx) then order.insert(at, label)
Relocate(ord, idx, at) ==
    LET label == ord[idx + 1]
        r == insert(remove(ord, idx), at, label)
    IN  [order |-> r.vec, panicked |-> r.panicked]

LabelOp(op, label, ref, panicked) ==
    [op |-> op, label |-> label, ref |-> ref, before |-> order, panicked |-> panicked,
     n |-> lbl.n + 1]

LabelFrame ==
    UNCHANGED <<sets, systems, steps, world, queue, mode, stepIdx, localIdx, status,
                evals, ran, ret, runs, hist, probe, cq, sys, cond>>

AddLabel(label) ==
    /\ phase = "build" /\ lbl.n < MaxLabelOps
    /\ order' = label_entry(order, label).order
    /\ lbl' = LabelOp("add", label, label, FALSE)
    /\ UNCHANGED phase
    /\ LabelFrame

AddLabelBefore(label, before) ==
    /\ phase = "build" /\ lbl.n < MaxLabelOps
    /\ LET e == label_entry(order, label)
           before_idx == label_idx(e.order, before)
           r == IF before_idx >= 0
                THEN Relocate(e.order, e.idx, before_idx_adjusted(before_idx, e.idx))
                ELSE [order |-> e.order, panicked |-> FALSE]
       IN  /\ order' = r.order
           /\ lbl' = LabelOp("before", label, before, r.panicked)
           /\ phase' = IF r.panicked THEN "panicked" ELSE phase
    /\ LabelFrame

AddLabelAfter(label, after) ==
    /\ phase = "build" /\ lbl.n < MaxLabelOps
    /\ LET e == label_entry(order, label)
           after_idx == label_idx(e.order, after)
           r == IF after_idx >= 0
                THEN Relocate(e.order, e.idx, after_idx_adjusted(after_idx, e.idx))
                ELSE [order |-> e.order, panicked |-> FALSE]
       IN  /\ order' = r.order
           /\ lbl' = LabelOp("after", label, after, r.panicked)
           /\ phase' = IF r.panicked THEN "panicked" ELSE phase
    /\ LabelFrame

NextLabels ==
    \/ \E l \in LabelArgs : AddLabel(l)
    \/ \E l, r \in LabelArgs : AddLabelBefore(l, r)
    \/ \E l, r \in LabelArgs : AddLabelAfter(l, r)

SpecLabels == Init /\ [][NextLabels]_vars

\* add_system between the label calls: entry() creates the set of the label
\* and pushes the label to the order when it is not in it
EntrySystem(label) ==
    /\ phase = "build" /\ lbl.n < MaxLabelOps
    /\ sets' = [entry_sets(label) EXCEPT ![label] = Append(@, SimpleStepOf("toggle_flag"))]
    /\ order' = entry_order(label)
    /\ lbl' = LabelOp("add_system", label, label, FALSE)
    /\ UNCHANGED <<phase, systems, steps, world, queue, mode, stepIdx, localIdx, status,
                   evals, ran, ret, runs, hist, probe, cq, sys, cond>>

NextOrder ==
    \/ NextLabels
    \/ \E l \in LabelArgs : EntrySystem(l)

SpecOrder == Init /\ [][NextOrder]_vars

(***************************************************************************)
(* Systems used on their own (system/function_system.rs, exclusive_system  *)
(* .rs, run.rs, local.rs) and through a SystemConfig (schedule/config.rs). *)
(* The operators work on a system s = [fn, param_state] and the set w of   *)
(* entities of the registry, and return what the call leaves:              *)
(*   [s, w, outcome, body, seen, pushed, applied]                          *)
(* outcome is "ok" or the message of the panic, body tells whether the     *)
(* system function was called, seen is the value it found in its Local.    *)
(***************************************************************************)
MaxSysOps == 5

NotInitialized == "param_state not initialized"
SharedRegistry == "cannot run exclusive systems with a shared registry"

Returned(s, w, outcome, body, seen, pushed, applied) ==
    [s |-> s, w |-> w, outcome |-> outcome, body |-> body, seen |-> seen,
     pushed |-> pushed, applied |-> applied]
Panicked(s, w, msg) == Returned(s, w, msg, FALSE, 0, <<>>, <<>>)

\* SystemParam::init_state of the parameters: Local's T::from_registry (the
\* default of usize) and an empty CommandQueue
init_state(fn) == [some |-> TRUE, local |-> 0, queue |-> <<>>]

\* System::initialize leaving param_state as it was
system_initialize_nothing(s) == s
\* System::initialize
system_initialize(s) == [s EXCEPT !.param_state = init_state(s.fn)]

\* Local's borrow handing out a new default value
Local_borrow_fresh(state) == 0
\* SystemParam::borrow of Local: the value kept in the system's state
Local_borrow(state) == state.local

\* the system function called with its parameters borrowed from the state
func_run(s, w) ==
    LET seen == Local_borrow(s.param_state)
        cmds == IF SysFns[s.fn].buffer # "none" /\ w # {} THEN <<Min(w)>> ELSE <<>>
        w2 == IF SysFns[s.fn].exclusive /\ w # {} THEN w \ {Max(w)} ELSE w
    IN  Returned([s EXCEPT !.param_state.local = seen + 1,
                           !.param_state.queue = @ \o cmds],
                 w2, "ok", TRUE, seen, cmds, <<>>)

\* System::run_unsafe of FunctionSystem and of ExclusiveSystem
system_run_unsafe(s, w) ==
    IF SysFns[s.fn].exclusive THEN Panicked(s, w, SharedRegistry)
    ELSE IF ~s.param_state.some THEN Panicked(s, w, NotInitialized)
    ELSE func_run(s, w)

\* System::run: the trait's default for FunctionSystem, ExclusiveSystem's own
system_run(s, w) ==
    IF ~SysFns[s.fn].exclusive THEN system_run_unsafe(s, w)
    ELSE IF ~s.param_state.some THEN Panicked(s, w, NotInitialized)
    ELSE func_run(s, w)

\* SystemParam::apply of the parameters: Deferred applies its buffer, Commands
\* and Local keep the trait's empty default
Param_apply(s, w) ==
    IF SysFns[s.fn].buffer = "Deferred"
    THEN Returned([s EXCEPT !.param_state.queue = <<>>], w \ Range(s.param_state.queue),
                  "ok", FALSE, 0, <<>>, s.param_state.queue)
    ELSE Returned(s, w, "ok", FALSE, 0, <<>>, <<>>)

\* System::apply_deferred of FunctionSystem and of ExclusiveSystem
system_apply_deferred(s, w) ==
    IF SysFns[s.fn].exclusive THEN Returned(s, w, "ok", FALSE, 0, <<>>, <<>>)
    ELSE IF ~s.param_state.some THEN Panicked(s, w, NotInitialized)
    ELSE Param_apply(s, w)

\* SystemConfig::run when the conditions evaluate to c: should_run runs every
\* condition, itself a system that needs its state, before the system
config_run(s, w, c) ==
    IF ~s.param_state.some THEN Panicked(s, w, NotInitialized)
    ELSE IF c THEN system_run(s, w)
    ELSE Returned(s, w, "ok", FALSE, 0, <<>>, <<>>)

\* Run::run_with: a new system is initialized, run and its deferred
\* parameters applied; the system is dropped when run_with returns
run_with(fn, w) ==
    LET ran1 == system_run(system_initialize(into_system(fn)), w)
        app == system_apply_deferred(ran1.s, ran1.w)
    IN  IF ran1.outcome # "ok" THEN ran1
        ELSE IF app.outcome # "ok" THEN [ran1 EXCEPT !.outcome = app.outcome]
        ELSE [ran1 EXCEPT !.s = app.s, !.w = app.w, !.applied = app.applied]

SysFrame ==
    UNCHANGED <<phase, sets, order, systems, steps, world, queue, mode, stepIdx,
                localIdx, status, evals, ran, ret, runs, hist, probe, cq, lbl, cond>>

MayCall == sys.n < MaxSysOps /\ ~sys.halted

\* the state after a call on system i that returned r
AfterCall(op, i, r) ==
    [inst |-> [sys.inst EXCEPT ![i] = r.s],
     entities |-> r.w,
     called |-> sys.called,
     left |-> IF r.body THEN [sys.left EXCEPT ![i] = r.s.param_state.local]
              ELSE sys.left,
     since |-> IF r.body
               THEN [j \in SysIds |-> IF j = i THEN {} ELSE sys.since[j] \cup {"other"}]
               ELSE IF op = "config_run" /\ r.outcome = "ok"
               THEN [sys.since EXCEPT ![i] = @ \cup {"false"}]
               ELSE sys.since,
     last |-> [op |-> op, id |-> i, fn |-> sys.inst[i].fn,
               wasInit |-> sys.called[i],
               outcome |-> r.outcome, body |-> r.body, seen |-> r.seen,
               leftBefore |-> sys.left[i], sinceBefore |-> sys.since[i],
               pushed |-> r.pushed, applied |-> r.applied],
     n |-> sys.n + 1,
     halted |-> r.outcome # "ok"]

\* system.initialize(registry): the Local is created anew
SysInitialize(i) ==
    /\ MayCall
    /\ LET s2 == system_initialize(sys.inst[i])
       IN  sys' = [AfterCall("initialize", i,
                            Returned(s2, sys.entities, "ok", FALSE, 0, <<>>, <<>>))
                    EXCEPT !.called[i] = TRUE,
                           !.left[i] = init_state(sys.inst[i].fn).local,
                           !.since[i] = {}]
    /\ SysFrame

\* Schedule::initialize of a schedule that holds the three systems
ScheduleInitialize ==
    /\ MayCall
    /\ sys' = [sys EXCEPT !.inst = [i \in SysIds |-> system_initialize(sys.inst[i])],
                          !.called = [i \in SysIds |-> TRUE],
                          !.left = [i \in SysIds |-> init_state(sys.inst[i].fn).local],
                          !.since = [i \in SysIds |-> {}],
                          !.last = [NoSysOp EXCEPT !.op = "schedule_initialize"],
                          !.n = @ + 1]
    /\ SysFrame

SysRun(i) ==
    /\ MayCall
    /\ sys' = AfterCall("run", i, system_run(sys.inst[i], sys.entities))
    /\ SysFrame

SysRunUnsafe(i) ==
    /\ MayCall
    /\ sys' = AfterCall("run_unsafe", i, system_run_unsafe(sys.inst[i], sys.entities))
    /\ SysFrame

SysApplyDeferred(i) ==
    /\ MayCall
    /\ sys' = AfterCall("apply_deferred", i,
                        system_apply_deferred(sys.inst[i], sys.entities))
    /\ SysFrame

ConfigRun(i, c) ==
    /\ MayCall
    /\ sys' = AfterCall("config_run", i, config_run(sys.inst[i], sys.entities, c))
    /\ SysFrame

\* registry.run(system): the system lives for the call only
RunWith(fn) ==
    /\ MayCall
    /\ LET r == run_with(fn, sys.entities)
       IN  sys' = [sys EXCEPT !.entities = r.w,
                             !.last = [op |-> "run_with", id |-> 0, fn |-> fn,
                                       wasInit |-> FALSE, outcome |-> r.outcome,
                                       body |-> r.body, seen |-> r.seen,
                                       leftBefore |-> 0, sinceBefore |-> {},
                                       pushed |-> r.pushed, applied |-> r.applied],
                             !.since = [j \in SysIds |-> @[j] \cup {"other"}],
                             !.n = @ + 1,
                             !.halted = r.outcome # "ok"]
    /\ SysFrame

NextSystem ==
    \/ \E i \in SysIds : SysInitialize(i)
    \/ ScheduleInitialize
    \/ \E i \in SysIds : SysRun(i)
    \/ \E i \in SysIds : SysRunUnsafe(i)
    \/ \E i \in SysIds : SysApplyDeferred(i)
    \/ \E i \in SysIds, c \in BOOLEAN : ConfigRun(i, c)
    \/ \E fn \in DOMAIN SysFns : RunWith(fn)

SpecSystem == Init /\ [][NextSystem]_vars

(***************************************************************************)
(* The conditions of a SystemConfig (schedule/config.rs, condition.rs).  A *)
(* condition is a system whose parameters are ReadonlySystemParams; Local  *)
(* is one (local.rs), so a condition may keep a state of its own:          *)
(*   flag_is_set  fn(flag: Res<Flag>) -> bool { flag.0 }                   *)
(*   counts_odd   fn(mut n: Local<usize>) -> bool { *n += 1; *n % 2 == 1 } *)
(***************************************************************************)
MaxCondOps == 5

CondFns == {"flag_is_set", "counts_odd"}

\* ReadonlySystem::run_readyonly of one condition: its result and the Local
\* it leaves
run_readyonly(fn, local, flag) ==
    IF fn = "flag_is_set" THEN [out |-> flag, local |-> local]
    ELSE [out |-> (local + 1) % 2 = 1, local |-> local + 1]

\* SystemConfig::should_run: Iterator::all over the conditions, which stops at
\* the first condition that returns false
RECURSIVE should_run(_, _, _, _)
should_run(conditions, i, locals, flag) ==
    IF i > Len(conditions) THEN [result |-> TRUE, locals |-> locals]
    ELSE LET r == run_readyonly(conditions[i], locals[i], flag)
             locals2 == [locals EXCEPT ![i] = r.local]
         IN  IF r.out THEN should_run(conditions, i + 1, locals2, flag)
             ELSE [result |-> FALSE, locals |-> locals2]

CondFrame ==
    UNCHANGED <<phase, sets, order, systems, steps, world, queue, mode, stepIdx,
                localIdx, status, evals, ran, ret, runs, hist, probe, cq, lbl, sys>>

MayCallCond == cond.n < MaxCondOps /\ ~cond.halted

\* SystemConfig::run_if: the condition is pushed; it has no state yet
RunIf(fn) ==
    /\ MayCallCond
    /\ ~cond.initialized
    /\ cond' = [cond EXCEPT !.conditions = Append(@, fn),
                            !.locals = Append(@, 0),
                            !.last = [NoCondOp EXCEPT !.op = "run_if"],
                            !.n = @ + 1]
    /\ CondFrame

\* SystemConfig::initialize: every condition gets its param_state
CondInitialize ==
    /\ MayCallCond
    /\ cond' = [cond EXCEPT !.initialized = TRUE,
                            !.locals = [i \in DOMAIN cond.conditions |-> 0],
                            !.last = [NoCondOp EXCEPT !.op = "initialize"],
                            !.n = @ + 1]
    /\ CondFrame

\* world.insert_resource(Flag(b))
InsertFlag(b) ==
    /\ MayCallCond
    /\ cond.flag # b
    /\ cond' = [cond EXCEPT !.flag = b,
                            !.last = [NoCondOp EXCEPT !.op = "insert_resource"],
                            !.n = @ + 1]
    /\ CondFrame

\* SystemConfig::should_run; the first condition panics when the conditions
\* have not been initialized
ShouldRun ==
    /\ MayCallCond
    /\ LET uninit == ~cond.initialized /\ cond.conditions # <<>>
           r == should_run(cond.conditions, 1, cond.locals, cond.flag)
       IN  cond' = [cond EXCEPT !.locals = IF uninit THEN @ ELSE r.locals,
                                !.halted = uninit,
                                !.last = [op |-> "should_run", locals |-> cond.locals,
                                          flag |-> cond.flag,
                                          result |-> ~uninit /\ r.result,
                                          panicked |-> uninit],
                                !.n = @ + 1]
    /\ CondFrame

NextCond ==
    \/ \E fn \in CondFns : RunIf(fn)
    \/ CondInitialize
    \/ \E b \in BOOLEAN : InsertFlag(b)
    \/ ShouldRun

SpecCond == Init /\ [][NextCond]_vars

(***************************************************************************)
(* Properties.                                                             *)
(***************************************************************************)
Built == phase # "build"
KindOfStep(s) == steps[StepOf(s)].kind
LabelPos(l) == CHOOSE i \in DOMAIN order : order[i] = l

\* C1: in every built schedule, no parameter kind of a member of a parallel
\* Systems step conflicts with a parameter kind of another member of the step.
C1_NoConflictInParallelStep ==
    \A j \in DOMAIN steps :
        steps[j].kind = "Systems" =>
            \A a, b \in Range(steps[j].members) :
                a # b => \A p1 \in Range(param_kinds(systems, a)),
                            p2 \in Range(param_kinds(systems, b)) : ~conflicts_with(p1, p2)

\* C1 witness: a built schedule with a parallel step of several members and a
\* second parallel step (a conflicting or overflowing system was kept out).
C1_Witness ==
    /\ Built
    /\ \E j, k \in DOMAIN steps :
        /\ j # k
        /\ steps[j].kind = "Systems" /\ Len(steps[j].members) >= 2
        /\ steps[k].kind = "Systems"
        /\ \E a \in Range(steps[j].members), b \in Range(steps[k].members) :
              \E p1 \in Range(param_kinds(systems, a)), p2 \in Range(param_kinds(systems, b)) :
                  conflicts_with(p1, p2)

\* two accesses to the same (kind, type) pair of the registry, one exclusive
Family(k) == CASE k.tag \in {"Comp", "CompMut"} -> "component"
               [] k.tag \in {"Res", "ResMut"} -> "resource"
               [] OTHER -> "none"
AccessClash(k1, k2) ==
    /\ Family(k1) # "none"
    /\ Family(k1) = Family(k2)
    /\ k1.ty = k2.ty
    /\ k1.tag \in {"CompMut", "ResMut"} \/ k2.tag \in {"CompMut", "ResMut"}

\* C2: during a run no two members of a parallel step hold, at the same time,
\* accesses to the same (kind, type) pair of which one is exclusive; the
\* accesses of a member are the borrows of its conditions and of its body.
C2_NoConcurrentConflictingAccess ==
    \A a, b \in Ids :
        a # b => \A k1 \in Held(a), k2 \in Held(b) : ~AccessClash(k1, k2)

\* C3: no deferred buffer of a member of a parallel step is applied before
\* every member of the step has returned from run_unsafe, and the entities the
\* members of a parallel step see are those the step began with.
C3_NoApplyBeforeStepReturns ==
    /\ \A i \in DOMAIN hist.applied :
          KindOfStep(hist.applied[i].by) = "Systems" =>
              \A m \in Range(steps[StepOf(hist.applied[i].by)].members) : status[m] = "done"
    /\ InStep("Systems") => world.entities = hist.stepStart

\* C3 witness: a command of a member of a parallel step with several members
\* has been applied, and it destroyed an entity.
C3_Witness ==
    /\ phase = "run"
    /\ \E i \in DOMAIN hist.applied :
          /\ KindOfStep(hist.applied[i].by) = "Systems"
          /\ Len(steps[StepOf(hist.applied[i].by)].members) >= 2
          /\ hist.applied[i].entity \notin world.entities

RECURSIVE PushedByMembers(_, _)
PushedByMembers(members, i) ==
    IF i > Len(members) THEN <<>>
    ELSE hist.pushed[members[i]] \o PushedByMembers(members, i + 1)

RECURSIVE AppliedOf(_, _, _)
AppliedOf(applied, i, S) ==
    IF i > Len(applied) THEN <<>>
    ELSE (IF applied[i].by \in S THEN <<applied[i]>> ELSE <<>>) \o AppliedOf(applied, i + 1, S)

StepCompleted(j) == (phase = "run" /\ stepIdx > j) \/ phase = "done"

\* C4: once a parallel step is over, and so before any system of the next
\* step starts, all commands its members pushed during the step have been
\* applied to the world, in the order of the members.
C4_StepCommandsAppliedInOrder ==
    \A j \in DOMAIN steps :
        (steps[j].kind = "Systems" /\ StepCompleted(j)) =>
            AppliedOf(hist.applied, 1, Range(steps[j].members))
                = PushedByMembers(steps[j].members, 1)

\* C5: the commands a system of a LocalSystems or ExclusiveSystems step pushes
\* while it runs are applied as part of running it: when it has returned, its
\* queue is empty.
C5_SequentialSystemAppliesOwnBuffer ==
    \A s \in Ids :
        (Built /\ KindOfStep(s) \in {"LocalSystems", "ExclusiveSystems"} /\ status[s] = "done")
            => queue[s] = <<>>

\* a barrier was requested under the label of a and b after a and before b
BarrierBetween(a, b) ==
    /\ systems[a].label = systems[b].label
    /\ systems[a].epoch < systems[b].epoch

\* C6: when system B was added after a barrier that was added after system A
\* under the same label, then whenever B starts A has returned, A's deferred
\* commands have been applied and maintain has been called since A ran.
C6_BarrierMakesEffectsVisible ==
    \A a, b \in Ids :
        (BarrierBetween(a, b) /\ status[b] # "idle") =>
            /\ status[a] = "done"
            /\ a \notin hist.pendingAtStart[b]
            /\ a \notin hist.dirtyAtStart[b]

\* C7 as stated: a system under an earlier label is in a strictly earlier
\* step than a system under a later label.
C7_EarlierLabelEarlierStep ==
    \A a, b \in Ids :
        LabelPos(systems[a].label) < LabelPos(systems[b].label) => StepOf(a) < StepOf(b)

\* C7 amended: a system under an earlier label runs before a system under a
\* later label in every run: it is in an earlier step, or earlier in the same
\* LocalSystems / ExclusiveSystems step, and has returned when the other starts.
C7_EarlierLabelRunsFirst ==
    \A a, b \in Ids :
        LabelPos(systems[a].label) < LabelPos(systems[b].label) =>
            /\ Precedes(a, b)
            /\ status[b] # "idle" => status[a] = "done"

\* C7 witness: two parallel systems under different labels are in different
\* steps and the one under the later label is running after the other returned.
C7_Witness ==
    /\ phase = "run"
    /\ \E a, b \in Ids :
          /\ LabelPos(systems[a].label) < LabelPos(systems[b].label)
          /\ StepOf(a) < StepOf(b)
          /\ KindOfStep(a) = "Systems" /\ KindOfStep(b) = "Systems"
          /\ status[a] = "done" /\ status[b] = "body"

AllTrue(s) == Len(evals[s]) = Len(Conds(s)) /\ \A i \in DOMAIN evals[s] : evals[s][i]

C9_MaintainAfterEveryParallelStep ==
    \A s \in Ids : \A a \in hist.dirtyAtStart[s] : KindOfStep(a) # "Systems"

\* C9 amended: when a system starts, maintain has been called since every
\* earlier parallel step, unless all the steps from that one to the system's
\* own are parallel steps (adjacent parallel steps run with no maintain
\* between them).
C9_MaintainUnlessAdjacentParallel ==
    \A s \in Ids : \A a \in hist.dirtyAtStart[s] :
        KindOfStep(a) = "Systems" =>
            \A k \in StepOf(a)..StepOf(s) : steps[k].kind = "Systems"

\* C9 witness: a system of a parallel step behind a barrier started after the
\* systems of an earlier parallel step ran, with maintain called in between.
C9_Witness ==
    /\ phase = "run"
    /\ \E s, a \in Ids :
          /\ KindOfStep(a) = "Systems" /\ KindOfStep(s) = "Systems"
          /\ StepOf(a) < StepOf(s)
          /\ ran[a] /\ status[s] = "done"
          /\ hist.dirtyAtStart[s] = {}

\* C10: conflicts_with returns a boolean for every pair of kinds, the same in
\* both orders of the pair.
C10_ConflictsSymmetric ==
    probe.done => (probe.out \in BOOLEAN /\ probe.out = probe.rev)

\* C10 witness: conflicts_with was applied to two different kinds that conflict.
C10_Witness == probe.done /\ probe.out /\ probe.a # probe.b

Shared(k) == k.tag \in {"Comp", "Res"}
Exclusive(k) == k.tag \in {"CompMut", "ResMut"}
CarriesType(k) == k.tag # "Entities"

\* C11: for a component type and for a resource type alike, a shared kind does
\* not conflict with a shared kind of the same type, and shared / exclusive,
\* exclusive / shared and exclusive / exclusive of the same type all conflict.
C11_SharedExclusiveTable ==
    (probe.done /\ Family(probe.a) # "none" /\ Family(probe.a) = Family(probe.b)
        /\ probe.a.ty = probe.b.ty) =>
        (probe.out <=> ~(Shared(probe.a) /\ Shared(probe.b)))

\* C11 witness: conflicts_with was applied to two exclusive kinds of one type
\* and returned true.
C11_Witness ==
    /\ probe.done /\ probe.out
    /\ Exclusive(probe.a) /\ probe.a = probe.b

\* C12: two kinds that carry different type identities never conflict.
C12_DistinctTypesNeverConflict ==
    (probe.done /\ CarriesType(probe.a) /\ CarriesType(probe.b) /\ probe.a.ty # probe.b.ty)
        => ~probe.out

\* C12 witness: conflicts_with was applied to two exclusive kinds of one family
\* with different types.
C12_Witness ==
    /\ probe.done /\ ~probe.out
    /\ Exclusive(probe.a) /\ probe.a.tag = probe.b.tag /\ probe.a.ty # probe.b.ty

\* C13 as stated: two kinds conflict exactly when they carry the same type
\* identity and at least one of them is exclusive, whatever their families.
C13_ConflictIffSameTypeOneExclusive ==
    probe.done =>
        (probe.out <=> (/\ CarriesType(probe.a) /\ CarriesType(probe.b)
                        /\ probe.a.ty = probe.b.ty
                        /\ Exclusive(probe.a) \/ Exclusive(probe.b)))

\* C13 amended: two kinds conflict exactly when they are both component kinds
\* or both resource kinds, carry the same type identity and at least one of
\* them is exclusive.
C13_ConflictIffSameFamilyTypeOneExclusive ==
    probe.done =>
        (probe.out <=> (/\ Family(probe.a) # "none" /\ Family(probe.a) = Family(probe.b)
                        /\ probe.a.ty = probe.b.ty
                        /\ Exclusive(probe.a) \/ Exclusive(probe.b)))

\* C13 witness: conflicts_with was applied to an exclusive component kind and an
\* exclusive resource kind of the same type identity and returned false.
C13_Witness ==
    /\ probe.done /\ ~probe.out
    /\ probe.a.tag = "CompMut" /\ probe.b.tag = "ResMut" /\ probe.a.ty = probe.b.ty

\* C14: a State kind and the Entities kind conflict with no kind, in either
\* position: not with a kind equal to themselves and not with an exclusive kind
\* of the same type identity.
C14_StateEntitiesNeverConflict ==
    (probe.done /\ (Family(probe.a) = "none" \/ Family(probe.b) = "none")) => ~probe.out

\* C14 witness: conflicts_with was applied to a State kind and an exclusive
\* kind of the same type identity.
C14_Witness ==
    /\ probe.done /\ ~probe.out
    /\ probe.a.tag = "State" /\ Exclusive(probe.b) /\ probe.a.ty = probe.b.ty

IdsOf(seq) == [i \in DOMAIN seq |-> seq[i].id]
FatesOf(seq) == {seq[i].fate : i \in DOMAIN seq}
NewLog == SubSeq(cq.log, cq.last.logLen + 1, Len(cq.log))

\* the commands a vector of cells holds, in the order of the cells
StoredIds(cells) == IdsOf(apply_or_drop_queud(cells, 1, world, <<>>, FALSE, 0).log)

\* the world after the given commands took effect one after the other
RECURSIVE EffectOf(_, _, _)
EffectOf(w, cmds, i) ==
    IF i > Len(cmds) THEN w
    ELSE EffectOf(Command_apply(cmds[i].ty, cmds[i].arg, w), cmds, i + 1)

\* C15: apply invokes every queued command against the world exactly once, in
\* the order the commands were pushed, and leaves the queue empty, whatever the
\* types of the commands.
C15_ApplyIsFifoAndEmpties ==
    cq.last.op = "apply" =>
        /\ Len(cq.bytes[cq.last.q]) = 0
        /\ IdsOf(NewLog) = IdsOf(cq.last.before)
        /\ FatesOf(NewLog) \subseteq {"applied"}
        /\ world = EffectOf(cq.last.world, cq.last.before, 1)

\* C15 witness: a queue holding a command with captured data followed by one
\* without, whose order matters (insert_resource then remove_resource), was
\* applied.
C15_Witness ==
    /\ cq.last.op = "apply"
    /\ Len(cq.last.before) >= 2
    /\ \E i \in DOMAIN cq.last.before :
          /\ i + 1 \in DOMAIN cq.last.before
          /\ cq.last.before[i].ty = "insert_resource"
          /\ cq.last.before[i + 1].ty = "remove_resource"
    /\ 1 \notin DOMAIN world.res

AppliedCommands(lg) == SelectSeq(lg, LAMBDA e : e.fate = "applied")

\* the cells written by the commands pushed so far, whichever queue holds them
Occurrences(id) ==
    Cardinality({i \in DOMAIN cq.log : cq.log[i].id = id})
    + Cardinality({<<q, i>> \in QueueIds \X (1..MaxPush + 1) :
                      /\ q \in cq.live
                      /\ i \in DOMAIN StoredIds(cq.bytes[q])
                      /\ StoredIds(cq.bytes[q])[i] = id})

\* C16: over any sequence of push, apply, append and drop every command is
\* consumed at most once: each command pushed is either still held by exactly
\* one live queue or was consumed exactly once; an apply of a queue given
\* nothing since its last apply changes nothing; after append the receiving
\* queue holds the commands of both and the other queue holds none.
C16_AtMostOnce ==
    /\ \A id \in 1..cq.issued : Occurrences(id) = 1
    /\ \A q \in cq.live : StoredIds(cq.bytes[q]) = IdsOf(cq.pending[q])
    /\ (cq.last.op = "apply" /\ Len(cq.last.before) = 0) =>
          (world = cq.last.world /\ Len(cq.log) = cq.last.logLen)
    /\ cq.last.op = "append" =>
          /\ Len(cq.bytes[cq.last.src]) = 0
          /\ StoredIds(cq.bytes[cq.last.q]) = IdsOf(cq.last.before)
          /\ world = cq.last.world /\ Len(cq.log) = cq.last.logLen
    /\ \A i \in DOMAIN cq.log : cq.log[i].via \in QueueIds

\* C16 witness: a queue was applied, given no command and applied again, after
\* commands appended from the other queue had been applied through it.
C16_Witness ==
    /\ cq.last.op = "apply" /\ Len(cq.last.before) = 0
    /\ \E i \in DOMAIN cq.log :
          /\ cq.log[i].fate = "applied"
          /\ cq.log[i].via = cq.last.q
    /\ Len(cq.log) >= 2

\* C17: dropping a queue with pending commands destructs each of them exactly
\* once, applies none, and leaves the world unchanged.
C17_DropDiscardsPending ==
    cq.last.op = "drop" =>
        /\ IdsOf(NewLog) = IdsOf(cq.last.before)
        /\ FatesOf(NewLog) \subseteq {"dropped"}
        /\ world = cq.last.world
        /\ cq.last.q \notin cq.live

\* C17 witness: a queue holding two commands of different types that would
\* change the world was dropped.
C17_Witness ==
    /\ cq.last.op = "drop"
    /\ Len(cq.last.before) >= 2
    /\ \E i, j \in DOMAIN cq.last.before : cq.last.before[i].ty # cq.last.before[j].ty
    /\ EffectOf(cq.last.world, cq.last.before, 1) # world

IsSuffix(t, q) == Len(t) <= Len(q) /\ SubSeq(q, Len(q) - Len(t) + 1, Len(q)) = t

\* C18: when a member of a parallel step has panicked, no deferred buffer of a
\* member of that step is applied: the commands the members pushed during the
\* step are still in their queues and the entities are those the step began
\* with, also after the panic has left run.
C18_PanicAppliesNoBuffer ==
    \A s \in Ids :
        status[s] = "panicked" =>
            /\ \A i \in DOMAIN hist.applied : StepOf(hist.applied[i].by) # StepOf(s)
            /\ \A m \in Range(steps[StepOf(s)].members) : IsSuffix(hist.pushed[m], queue[m])
            /\ world.entities = hist.stepStart

\* C18 witness: in a parallel run one member panicked, another member of the
\* step returned with commands in its Deferred buffer, and the panic left run.
C18_Witness ==
    /\ phase = "panicked" /\ mode = "par"
    /\ \E s, m \in Ids :
          /\ s # m /\ StepOf(s) = StepOf(m)
          /\ status[s] = "panicked" /\ status[m] = "done"
          /\ Fn(m).buffer = "Deferred" /\ hist.pushed[m] # <<>>

Without(ord, label) == SelectSeq(ord, LAMBDA x : x # label)
InOrder(ord, label) == \E i \in DOMAIN ord : ord[i] = label

\* C19: after add_label_after(L, R) with R in the label order and L # R, the
\* call has returned and L stands immediately after R in the label order.
C19_LabelAfterIsAdjacent ==
    (lbl.op = "after" /\ InOrder(lbl.before, lbl.ref) /\ lbl.label # lbl.ref) =>
        /\ ~lbl.panicked
        /\ InOrder(order, lbl.label)
        /\ label_idx(order, lbl.label) = label_idx(order, lbl.ref) + 1

\* C20: after add_label_before(L, R) with R in the label order and L # R, L
\* stands immediately before R in the label order, once, and the other labels
\* keep their order.
C20_LabelBeforeIsAdjacent ==
    (lbl.op = "before" /\ InOrder(lbl.before, lbl.ref) /\ lbl.label # lbl.ref) =>
        /\ ~lbl.panicked
        /\ InOrder(order, lbl.label)
        /\ label_idx(order, lbl.label) + 1 = label_idx(order, lbl.ref)
        /\ Without(order, lbl.label) = Without(lbl.before, lbl.label)
        /\ Len(order) = Len(Without(order, lbl.label)) + 1

\* C20 witness: add_label_before moved a label that stood before the reference
\* label, not next to it, and the call before it placed a new label.
C20_Witness ==
    /\ lbl.op = "before" /\ lbl.n = 2
    /\ InOrder(lbl.before, lbl.label) /\ InOrder(lbl.before, lbl.ref)
    /\ label_idx(lbl.before, lbl.label) + 1 < label_idx(lbl.before, lbl.ref)
    /\ InOrder(order, "Custom")
    /\ order # lbl.before

\* C21: add_label_before(L, R) and add_label_after(L, R) with R not in the
\* label order return normally; a new L is appended at the end, an L already
\* in the order keeps its place, and no other label moves.
C21_MissingReferenceAppends ==
    (lbl.op \in {"before", "after"} /\ ~InOrder(lbl.before, lbl.ref)) =>
        /\ ~lbl.panicked
        /\ order = IF InOrder(lbl.before, lbl.label) THEN lbl.before
                   ELSE Append(lbl.before, lbl.label)

\* C21 witness: add_label_after was called with a new label and a reference
\* label that is not in the order, after a call that had changed the order.
C21_Witness ==
    /\ lbl.op = "after" /\ lbl.n = 2
    /\ ~InOrder(lbl.before, lbl.ref) /\ ~InOrder(lbl.before, lbl.label)
    /\ lbl.label # lbl.ref
    /\ lbl.before # DefaultOrder

\* C22: add_label with a label that is already in the order leaves the order
\* unchanged (and appends a label that is new), so a second add_label of the
\* same label changes nothing.
C22_AddLabelIdempotent ==
    lbl.op = "add" =>
        order = IF InOrder(lbl.before, lbl.label) THEN lbl.before
                ELSE Append(lbl.before, lbl.label)

\* C22 witness: add_label was called a second time with the label the first
\* call had appended.
C22_Witness ==
    /\ lbl.op = "add" /\ lbl.n = 2
    /\ lbl.before = Append(DefaultOrder, lbl.label)
    /\ order = lbl.before

\* the parallel steps of the built schedule
SystemsSteps == {j \in DOMAIN steps : steps[j].kind = "Systems"}

\* C23: whatever max_threads the build was given (0 and 1 included), every
\* parallel Systems step of the built schedule has at most max_threads members.
C23_StepWithinMaxThreads ==
    Built => \A j \in SystemsSteps : Len(steps[j].members) <= probe.max_threads

WritersOfR == {s \in Ids : systems[s].fn = "toggle_flag"}
ReadersOfQ == {s \in Ids : systems[s].fn = "read_other"}
TwoWritersOneReader ==
    /\ Built
    /\ Len(systems) = 3
    /\ Cardinality(WritersOfR) = 2 /\ Cardinality(ReadersOfQ) = 1
    /\ \A a, b \in Ids : systems[a].label = systems[b].label
    /\ \A l \in DOMAIN probe.sets : \A i \in DOMAIN probe.sets[l] :
          probe.sets[l][i].kind = "System"
\* the writer added first (system ids follow the order of the add_system calls
\* under a label)
FirstWriter == Min(WritersOfR)
TwoStepsWritersApart ==
    /\ Cardinality(SystemsSteps) = 2 /\ Len(steps) = 2
    /\ \A a, b \in WritersOfR : a # b => StepOf(a) # StepOf(b)
    /\ Range(steps[StepOf(FirstWriter)].members) \subseteq {FirstWriter} \cup ReadersOfQ

\* C28 as stated: two writers of R and a reader of Q under one label, added in
\* any order, build into exactly two parallel steps with the writers in
\* different steps and the first-added writer alone or with the reader only.
C28_TwoWritersOneReader == TwoWritersOneReader => TwoStepsWritersApart

\* C28 amended: the same, for a build whose max_threads is at least 2.
C28_TwoWritersOneReaderTwoThreads ==
    (TwoWritersOneReader /\ probe.max_threads >= 2) => TwoStepsWritersApart

\* C28 witness: the reader was added last, the build allowed two members in a
\* step, and the reader shares the step of the first writer.
C28_Witness ==
    /\ TwoWritersOneReader /\ probe.max_threads = 2
    /\ ReadersOfQ = {3}
    /\ StepOf(3) = StepOf(FirstWriter)

\* C30: the first system added after an add_barrier call under a label is in
\* a step that holds no system added under that label before the barrier,
\* whatever the kinds of the two systems.
C30_FreshStepAfterBarrier ==
    Built =>
        \A a, b \in Ids :
            (/\ systems[a].label = systems[b].label
             /\ systems[a].pos < systems[b].pos
             /\ probe.sets[systems[b].label][systems[b].pos - 1].kind = "Barrier")
            => StepOf(a) # StepOf(b)

\* a placement e made by the System arm: step k of the steps it found is a
\* parallel batch no member of which conflicts with the system placed
ConflictFree(e, k) ==
    /\ e.before[k].kind = "Systems"
    /\ \A m \in Range(e.before[k].members) :
          \A p1 \in Range(SystemFns[systems[m].fn].params),
             p2 \in Range(SystemFns[systems[e.sid].fn].params) : ~conflicts_with(p1, p2)
IsFull(e, k) == Len(e.before[k].members) >= probe.max_threads
JoinedStep(e, j) == e.after = [e.before EXCEPT ![j].members = Append(@, e.sid)]
OpenedStep(e) == e.after = Append(e.before, [kind |-> "Systems", members |-> <<e.sid>>])
\* the steps the backward walk reaches when it stops at a conflicting step or a
\* step that is not a parallel batch
Reached(e) == {j \in DOMAIN e.before : \A k \in j..Len(e.before) : ConflictFree(e, k)}
\* the same when it stops at a full step too
ReachedNotFull(e) ==
    {j \in DOMAIN e.before :
        \A k \in j..Len(e.before) : ConflictFree(e, k) /\ ~IsFull(e, k)}
OpenReached(e) == {j \in Reached(e) : ~IsFull(e, j)}

\* C29 as stated: the walk stops at the first step that conflicts, is full or
\* is not a parallel batch; the system joins the earliest batch reached, and
\* opens a new parallel step at the end when none was reached.
C29_WalkStopsAtFullStep ==
    Built =>
        \A i \in DOMAIN probe.placed :
            LET e == probe.placed[i]
            IN  IF ReachedNotFull(e) = {} THEN OpenedStep(e)
                ELSE JoinedStep(e, Min(ReachedNotFull(e)))

\* C29 amended: the walk stops at the first step that conflicts or is not a
\* parallel batch, and passes over full batches; the system joins the earliest
\* batch reached that is not full, and opens a new parallel step at the end
\* when there is none.
C29_WalkPassesFullSteps ==
    Built =>
        \A i \in DOMAIN probe.placed :
            LET e == probe.placed[i]
            IN  IF OpenReached(e) = {} THEN OpenedStep(e)
                ELSE JoinedStep(e, Min(OpenReached(e)))

\* C29 witness: a system was placed into a batch that lies before a full batch
\* the walk passed over.
C29_Witness ==
    /\ Built
    /\ \E i \in DOMAIN probe.placed :
          LET e == probe.placed[i]
          IN  /\ OpenReached(e) # {}
              /\ \E k \in Reached(e) : k > Min(OpenReached(e)) /\ IsFull(e, k)
              /\ JoinedStep(e, Min(OpenReached(e)))

\* the last call was made on a system before / after initialize was called on it
CalledUninitialized ==
    sys.last.op \in {"run", "run_unsafe", "apply_deferred"} /\ ~sys.last.wasInit
RanInitialized ==
    sys.last.op \in {"run", "config_run"} /\ sys.last.wasInit

\* C24 as stated: run, run_unsafe and apply_deferred on a function system or
\* an exclusive system that was not initialized panic with "param_state not
\* initialized" and do not call the body; after initialize (of the system or
\* of the schedule) a run never raises that panic.
C24_UninitializedPanics ==
    /\ CalledUninitialized =>
          (sys.last.outcome = NotInitialized /\ ~sys.last.body)
    /\ RanInitialized => sys.last.outcome # NotInitialized

\* C24 amended: the same for run, run_unsafe and apply_deferred of a function
\* system and for run of an exclusive system; an exclusive system's run_unsafe
\* panics with "cannot run exclusive systems with a shared registry" and its
\* apply_deferred returns without a panic, neither calling the body.
C24_UninitializedPanicsByKind ==
    /\ CalledUninitialized =>
          /\ ~sys.last.body
          /\ sys.last.outcome =
                IF ~SysFns[sys.last.fn].exclusive \/ sys.last.op = "run"
                THEN NotInitialized
                ELSE IF sys.last.op = "run_unsafe" THEN SharedRegistry ELSE "ok"
    /\ RanInitialized => sys.last.outcome # NotInitialized

\* C24 witness: a system was run a second time after one initialize.
C24_Witness ==
    /\ sys.last.op = "run" /\ sys.last.wasInit
    /\ sys.last.outcome = "ok" /\ sys.last.body /\ sys.last.seen >= 1

\* C25: when registry.run(system) returns, the system was initialized and run
\* once, and every command it pushed has been applied to the registry.
C25_RunAppliesPushedCommands ==
    sys.last.op = "run_with" =>
        /\ sys.last.outcome = "ok" /\ sys.last.body /\ sys.last.seen = 0
        /\ sys.last.applied = sys.last.pushed
        /\ \A e \in Range(sys.last.pushed) : e \notin sys.entities

\* C26: the value a run of a system finds in its Local is the value the
\* previous run of that system left, or the value initialize created when the
\* system has not run since; runs of other systems and ticks in which the
\* system's conditions were false do not change it.
C26_LocalPersists ==
    (sys.last.body /\ sys.last.id \in SysIds) => sys.last.seen = sys.last.leftBefore

\* C26 witness: a system runs again after another system ran and after a tick
\* in which its own conditions were false, and finds the count it left.
C26_Witness ==
    /\ sys.last.body /\ sys.last.id \in SysIds
    /\ sys.last.seen >= 1
    /\ sys.last.sinceBefore = {"other", "false"}

\* the maintain calls due before the run reaches member li of step si: one for
\* every Barrier step and one for every member of a LocalSystems or
\* ExclusiveSystems step the run has gone through
Sequential(j) == steps[j].kind \in {"LocalSystems", "ExclusiveSystems"}
MaintainsDue(si, li) ==
    Cardinality({j \in 1..(si - 1) : steps[j].kind = "Barrier"})
    + Cardinality({p \in (1..(si - 1)) \X Ids :
                      Sequential(p[1]) /\ p[2] \in Range(steps[p[1]].members)})
    + (IF si <= Len(steps) /\ Sequential(si) THEN li - 1 ELSE 0)

\* C31: in a run, maintain has been called once for every Barrier step and
\* once, immediately before the system, for every system of a LocalSystems or
\* ExclusiveSystems step gone through, and nowhere else; when the run returns
\* it has been called once more, after the last step, and no system has
\* executed since, also when the schedule has no steps.
C31_MaintainPoints ==
    /\ phase = "run" => hist.maintains = MaintainsDue(stepIdx, localIdx)
    /\ phase \in {"run", "done"} =>
          \A j \in DOMAIN steps : Sequential(j) =>
              \A s \in Range(steps[j].members) :
                  status[s] = "done" => hist.dirtyAtStart[s] = {}
    /\ phase = "done" => /\ hist.maintains = MaintainsDue(Len(steps) + 1, 1) + 1
                         /\ hist.unmaintained = {}

\* C31 witness: a run returned from a schedule made of a parallel step, a
\* Barrier and a sequential step whose system executed.
C31_Witness ==
    /\ phase = "done"
    /\ Len(steps) = 3 /\ steps[1].kind = "Systems" /\ steps[2].kind = "Barrier"
    /\ Sequential(3) /\ \A s \in Ids : ran[s]
    /\ hist.maintains = 3

\* every attached condition evaluated on the state should_run started from
EveryCondition ==
    [i \in DOMAIN cond.conditions |->
        run_readyonly(cond.conditions[i], cond.last.locals[i], cond.last.flag)]

\* C32: after should_run the registry and the state of every condition are
\* what evaluating every attached condition gives, and the result is the
\* conjunction of all the conditions.
C32_ShortCircuitSkipsNothing ==
    (cond.last.op = "should_run" /\ ~cond.last.panicked) =>
        /\ cond.flag = cond.last.flag
        /\ cond.locals = [i \in DOMAIN cond.conditions |-> EveryCondition[i].local]
        /\ cond.last.result = (\A i \in DOMAIN cond.conditions : EveryCondition[i].out)

\* systems a and b were added under one label, a first
AddedBefore(a, b) == systems[a].label = systems[b].label /\ systems[a].pos < systems[b].pos
ParallelEligible(s) == ~is_exclusive(systems[s].fn) /\ ~is_thread_local(systems[s].fn)
DeclaredConflict(a, b) ==
    \E p1 \in Range(SystemFns[systems[a].fn].params),
       p2 \in Range(SystemFns[systems[b].fn].params) : conflicts_with(p1, p2)

\* C33: when parallel-eligible systems A and B were added under one label, A
\* first, and a declared kind of A conflicts with one of B, the step of A
\* comes strictly before the step of B.
C33_ConflictingKeepOrder ==
    Built =>
        \A a, b \in Ids :
            (/\ AddedBefore(a, b) /\ ParallelEligible(a) /\ ParallelEligible(b)
             /\ DeclaredConflict(a, b))
            => StepOf(a) < StepOf(b)

\* C33 witness: a system added after two conflicting systems walked back past
\* the step of the second and joined the step of the first.
C33_Witness ==
    /\ Built
    /\ \E a, b, c \in Ids :
          /\ AddedBefore(a, b) /\ AddedBefore(b, c)
          /\ ParallelEligible(a) /\ ParallelEligible(b) /\ DeclaredConflict(a, b)
          /\ StepOf(c) = StepOf(a) /\ StepOf(a) < StepOf(b)

\* the sets of label(a) are drained before those of label(b), or a before b
\* in the same set
DrainedBefore(a, b) ==
    \/ LabelPos(systems[a].label) < LabelPos(systems[b].label)
    \/ AddedBefore(a, b)

\* C34: for an exclusive or thread-local system E and a system X added under
\* the same label, X comes before E (an earlier step, or earlier in the same
\* sequential step) when X was added first and after E when it was added
\* later; a parallel system placed after E is in a step after the step of E.
C34_SequentialActsAsBarrier ==
    Built =>
        \A e, x \in Ids :
            (~ParallelEligible(e) /\ x # e) =>
                /\ AddedBefore(x, e) => Precedes(x, e)
                /\ AddedBefore(e, x) => Precedes(e, x)
                /\ (ParallelEligible(x) /\ DrainedBefore(e, x)) => StepOf(e) < StepOf(x)

\* C34 witness: a parallel system added after a sequential system that follows
\* a batch the parallel system does not conflict with.
C34_Witness ==
    /\ Built
    /\ \E a, e, x \in Ids :
          /\ AddedBefore(a, e) /\ AddedBefore(e, x)
          /\ ParallelEligible(a) /\ ~ParallelEligible(e) /\ ParallelEligible(x)
          /\ ~DeclaredConflict(a, x)
          /\ StepOf(a) < StepOf(e) /\ StepOf(e) < StepOf(x)

\* C38: every Systems, LocalSystems and ExclusiveSystems step of a built
\* schedule has a member, and every Barrier step comes right after a parallel
\* Systems step (so no schedule starts with a Barrier or has two in a row).
C38_StepsWellFormed ==
    Built =>
        \A j \in DOMAIN steps :
            /\ steps[j].kind # "Barrier" => Len(steps[j].members) >= 1
            /\ steps[j].kind = "Barrier" => (j > 1 /\ steps[j - 1].kind = "Systems")

\* C38 witness: a built schedule with one Barrier between two steps, from a
\* builder whose second label begins with an add_barrier call (the label's own
\* barrier and the requested one fall on the same place).
C38_Witness ==
    /\ Built
    /\ Len(steps) = 3 /\ steps[1].kind = "Systems" /\ steps[2].kind = "Barrier"
    /\ "Last" \in DOMAIN probe.sets
    /\ Len(probe.sets["Last"]) = 2 /\ probe.sets["Last"][1].kind = "Barrier"

\* C40: after a build every set of the builder is empty and the label order
\* is the one the build found; a second build on the builder, no system
\* added in between, gives a schedule with no steps.
C40_BuildDrainsSets ==
    Built =>
        /\ \A l \in DOMAIN sets : sets[l] = <<>>
        /\ DOMAIN sets = DOMAIN probe.sets
        /\ order = probe.order
        /\ phase = "rebuilt" => (steps = <<>> /\ systems = <<>>)

\* C40 witness: a second build on a builder whose first build gave steps.
C40_Witness ==
    /\ phase = "rebuilt" /\ probe.prev > 0
    /\ steps = <<>>

\* C36: add_label, add_label_before and add_label_after return normally for
\* every label order and every pair of labels.
C36_LabelCallsNeverPanic == lbl.op # "none" => ~lbl.panicked

NoLabelTwice(ord) == \A i, j \in DOMAIN ord : ord[i] = ord[j] => i = j

\* C37: after any sequence of add_label, add_label_before, add_label_after and
\* add_system calls the label order holds no label twice and holds every label
\* that has a set, and add_label_before / add_label_after leave the other
\* labels in the order they were in.
C37_LabelOrderInvariant ==
    /\ NoLabelTwice(order)
    /\ \A l \in DOMAIN sets : InOrder(order, l)
    /\ lbl.op \in {"before", "after"} =>
          Without(order, lbl.label) = Without(lbl.before, lbl.label)

\* C35: in every built schedule an ExclusiveSystems step holds exclusive systems
\* only and every exclusive system is in such a step, a LocalSystems step holds
\* only thread-local systems that are not exclusive, a Systems step only systems
\* that are neither; so no run enters run_unsafe (the only call a runner makes,
\* and the one that panics for an exclusive system) on an exclusive system.
C35_StepClassification ==
    Built =>
        /\ \A j \in DOMAIN steps : \A s \in Range(steps[j].members) :
              /\ steps[j].kind = "ExclusiveSystems" => is_exclusive(systems[s].fn)
              /\ steps[j].kind = "LocalSystems" =>
                    ~is_exclusive(systems[s].fn) /\ is_thread_local(systems[s].fn)
              /\ steps[j].kind = "Systems" =>
                    ~is_exclusive(systems[s].fn) /\ ~is_thread_local(systems[s].fn)
        /\ \A s \in Ids : is_exclusive(systems[s].fn) =>
              \E j \in DOMAIN steps :
                  steps[j].kind = "ExclusiveSystems" /\ s \in Range(steps[j].members)
        /\ \A s \in Ids : status[s] \in {"cond", "body", "panicked"} =>
              ~is_exclusive(systems[s].fn)
\* a run of a schedule with an exclusive, a thread-local and a parallel system
\* has returned, and the exclusive system's body ran
C35_Witness ==
    /\ phase = "done"
    /\ \E e, l, p \in Ids :
          /\ is_exclusive(systems[e].fn) /\ ran[e]
          /\ steps[StepOf(l)].kind = "LocalSystems"
          /\ steps[StepOf(p)].kind = "Systems" /\ ran[p]

\* run_seq computed as a function of the schedule and the state it starts in:
\* SystemConfig::run_unsafe of one system (should_run, then the body)
run_unsafe_seq(acc, s) ==
    LET evs == EvalConds(Conds(s), 1, acc.world)
        go == Len(evs) = Len(Conds(s)) /\ \A i \in DOMAIN evs : ConditionPasses(evs[i])
    IN  IF go
        THEN [acc EXCEPT !.world = BodyWorld(s, acc.world),
                         !.queue[s] = @ \o BodyCommands(s, acc.world)]
        ELSE acc

\* the members of one step, one after another in declaration order
RECURSIVE run_members_seq(_, _, _)
run_members_seq(acc, members, i) ==
    IF i > Len(members) THEN acc
    ELSE run_members_seq(run_unsafe_seq(acc, members[i]), members, i + 1)

\* run_generic with the runner of run_seq, from step j on
RECURSIVE run_seq(_, _)
run_seq(acc, j) ==
    IF j > Len(steps) THEN acc
    ELSE LET after == run_members_seq(acc, steps[j].members, 1)
         IN  run_seq(IF steps[j].kind = "Systems"
                     THEN ApplyMembers(after, steps[j].members, 1)
                     ELSE after,
                     j + 1)

\* the state the first run of a schedule starts in
FirstRunStart ==
    [world |-> [entities |-> 1..NumEntities, res |-> (1 :> TRUE)],
     queue |-> [s \in Ids |-> <<>>],
     applied |-> <<>>]

\* C39: whatever the interleaving of the members of its parallel steps, a run_par
\* that returns leaves the registry and the systems' buffers as run_seq leaves them
\* from the same start (here the first run of a schedule, whose start is known).
C39_ParEqualsSeq ==
    (phase = "done" /\ runs = 1 /\ mode = "par") =>
        LET r == run_seq(FirstRunStart, 1)
        IN  world = r.world /\ queue = r.queue
\* run_seq above is what a sequential run of the model does
RunSeqIsReference ==
    (phase = "done" /\ runs = 1 /\ mode = "seq") =>
        LET r == run_seq(FirstRunStart, 1)
        IN  world = r.world /\ queue = r.queue

====
